---------------------------- MODULE Spec2Model ----------------------------
(***************************************************************************)
(* Project Link: the menu-bar daemon (main_daemon.py), the storage layer   *)
(* (database.py), the time helpers (utils/helpers.py) and the interpreter  *)
(* (interpreter.py), modelled as state machines over one task store.       *)
(*                                                                         *)
(* Time is an integer number of seconds.  A stored timestamp is the TEXT   *)
(* column value, modelled as a record [k, w, o]:                           *)
(*   k = "null"   SQL NULL                                                 *)
(*   k = "empty"  the empty string                                         *)
(*   k = "bad"    a string datetime.fromisoformat rejects                  *)
(*   k = "naive"  ISO text without offset, wall-clock seconds w            *)
(*   k = "zulu"   ISO text ending in Z, wall-clock seconds w (UTC)         *)
(*   k = "offset" ISO text with an explicit offset of o seconds            *)
(***************************************************************************)
EXTENDS Integers, Sequences, FiniteSets, TLC

\* ------------------------------------------------------------ configuration
PL_DAEMON_HIGH_PRIORITY_INTERVAL == 15
PL_DAEMON_HIGH_PRIORITY_MAX_COUNT == 5
PL_DAEMON_MEDIUM_PRIORITY_INTERVAL == 30
PL_DAEMON_MEDIUM_PRIORITY_MAX_COUNT == 3
\* hours argument of the scan's get_upcoming_tasks call
ScanWindowHours == 1
\* default_minutes of ask_postpone_minutes
DefaultPostponeMinutes == 30
\* upper clamp of an entered postpone value
PostponeClampMinutes == 4320
\* menu shows at most this many pending tasks
MenuLimit == 5

\* ------------------------------------------------------------------ bounds
\* seconds the model clock advances per Tick
ClockStep == 300
\* the clock stops advancing here
MaxNow == 900
\* scan dialogs counted per task (history counter cap)
MaxShown == 2
\* offset of the system's local zone, seconds east of UTC
LocalOffset == 3600

\* --------------------------------------------------------- time text model
NullTime == [k |-> "null", w |-> 0, o |-> 0]
EmptyTime == [k |-> "empty", w |-> 0, o |-> 0]
BadTime == [k |-> "bad", w |-> 0, o |-> 0]

\* ISO text of instant t written in the zone with offset off
IsoAt(t, off) == [k |-> "offset", w |-> t + off, o |-> off]
NaiveAt(t) == [k |-> "naive", w |-> t + LocalOffset, o |-> 0]
ZuluAt(t) == [k |-> "zulu", w |-> t, o |-> 0]

\* Python truthiness of an optional string: None and "" are falsy
Truthy(ts) == ts.k \notin {"null", "empty"}

\* parse_time raises ValueError on empty or unparsable text
ParseOk(ts) == ts.k \in {"naive", "zulu", "offset"}

\* parse_time: the aware datetime [w, o]; Z reads as +00:00, text without
\* offset gets the local zone attached
parse_time(ts) ==
    CASE ts.k = "zulu" -> [w |-> ts.w, o |-> 0]
      [] ts.k = "naive" -> [w |-> ts.w, o |-> LocalOffset]
      [] OTHER -> [w |-> ts.w, o |-> ts.o]

\* the instant (seconds since the epoch of the model) of an aware datetime
Instant(dt) == dt.w - dt.o

\* datetime + timedelta(seconds): wall clock moves, tzinfo is kept
PlusSeconds(dt, s) == [w |-> dt.w + s, o |-> dt.o]

\* datetime.isoformat() of an aware datetime
isoformat(dt) == [k |-> "offset", w |-> dt.w, o |-> dt.o]

\* get_current_time() with PL_TIMEZONE unset: now in the local zone
get_current_time(t) == IsoAt(t, LocalOffset)

\* ------------------------------------------------------- notification rule
should_notify_task_late(task, t) ==
    IF task.priority >= 4
    THEN IF task.notification_count >= PL_DAEMON_HIGH_PRIORITY_MAX_COUNT
         THEN FALSE
         ELSE IF Truthy(task.last_notified_at) /\ ParseOk(task.last_notified_at)
                 /\ t - Instant(parse_time(task.last_notified_at))
                      <= PL_DAEMON_HIGH_PRIORITY_INTERVAL * 60
              THEN FALSE
              ELSE TRUE
    ELSE IF task.priority = 3
    THEN IF task.notification_count >= PL_DAEMON_MEDIUM_PRIORITY_MAX_COUNT
         THEN FALSE
         ELSE IF Truthy(task.last_notified_at) /\ ParseOk(task.last_notified_at)
                 /\ t - Instant(parse_time(task.last_notified_at))
                      <= PL_DAEMON_MEDIUM_PRIORITY_INTERVAL * 60
              THEN FALSE
              ELSE TRUE
    ELSE task.notification_count = 0

\* should_notify_task letting a low-priority task through a second time
should_notify_task_low_again(task, t) ==
    IF task.priority >= 4
    THEN IF task.notification_count >= PL_DAEMON_HIGH_PRIORITY_MAX_COUNT
         THEN FALSE
         ELSE IF Truthy(task.last_notified_at) /\ ParseOk(task.last_notified_at)
                 /\ t - Instant(parse_time(task.last_notified_at))
                      < PL_DAEMON_HIGH_PRIORITY_INTERVAL * 60
              THEN FALSE
              ELSE TRUE
    ELSE IF task.priority = 3
    THEN IF task.notification_count >= PL_DAEMON_MEDIUM_PRIORITY_MAX_COUNT
         THEN FALSE
         ELSE IF Truthy(task.last_notified_at) /\ ParseOk(task.last_notified_at)
                 /\ t - Instant(parse_time(task.last_notified_at))
                      < PL_DAEMON_MEDIUM_PRIORITY_INTERVAL * 60
              THEN FALSE
              ELSE TRUE
    ELSE task.notification_count <= 1

\* should_notify_task(task) evaluated at instant t
should_notify_task(task, t) ==
    IF task.priority >= 4
    THEN IF task.notification_count >= PL_DAEMON_HIGH_PRIORITY_MAX_COUNT
         THEN FALSE
         ELSE IF Truthy(task.last_notified_at) /\ ParseOk(task.last_notified_at)
                 /\ t - Instant(parse_time(task.last_notified_at))
                      < PL_DAEMON_HIGH_PRIORITY_INTERVAL * 60
              THEN FALSE
              ELSE TRUE
    ELSE IF task.priority = 3
    THEN IF task.notification_count >= PL_DAEMON_MEDIUM_PRIORITY_MAX_COUNT
         THEN FALSE
         ELSE IF Truthy(task.last_notified_at) /\ ParseOk(task.last_notified_at)
                 /\ t - Instant(parse_time(task.last_notified_at))
                      < PL_DAEMON_MEDIUM_PRIORITY_INTERVAL * 60
              THEN FALSE
              ELSE TRUE
    ELSE task.notification_count = 0

\* ------------------------------------------------------------------- state
VARIABLES
    tasks,      \* the tasks table: row id -> row
    now,        \* the wall clock, seconds
    lock,       \* owner of ProjectLinkApp.lock: "free", "scan" or "menu"
    pc,         \* where the UI thread is: "idle", "loop", "dialog", "prompt"
    fetched,    \* check_and_notify's list `tasks` (row snapshots)
    idx,        \* position of the scan in fetched
    menu,       \* task ids listed in the status-bar menu
    menuCall,   \* the most recent update_menu call: who called, what it did
    shown,      \* per task, reminder dialogs the scan has presented
    handled,    \* the dialog response just resolved, with the row before it
    probe,      \* input under evaluation by a pure-function specification
    result,     \* its outcome
    memory_logs, \* the memory_logs table: row id -> row
    prefs,      \* the preferences table: set of rows, one per key
    history,    \* interpreter._conversation_history
    interp,     \* process_user_input in progress: where it is, its locals
    lastRun     \* the utterance just processed: LLM data, rows before, outcome

interpVars == <<memory_logs, prefs, history, interp, lastRun>>

vars == <<tasks, now, lock, pc, fetched, idx, menu, menuCall, shown, handled,
          probe, result, interpVars>>

daemonVars == <<lock, pc, fetched, idx, menu, menuCall, shown, handled>>

\* ----------------------------------------------------------- storage layer
TaskIds(ts) == DOMAIN ts

\* ORDER BY on a timestamp TEXT column: NULL first, then text order; ISO text
\* of one layout orders by wall clock, then by what follows the seconds
TextRank(ts) ==
    CASE ts.k = "null" -> 0
      [] ts.k = "empty" -> 1
      [] ts.k = "naive" -> 2
      [] ts.k = "offset" -> 3
      [] ts.k = "zulu" -> 4
      [] OTHER -> 5

TextLess(x, y) ==
    IF ~ParseOk(x) \/ ~ParseOk(y) THEN TextRank(x) < TextRank(y)
    ELSE \/ x.w < y.w
         \/ x.w = y.w /\ TextRank(x) < TextRank(y)
         \/ x.w = y.w /\ TextRank(x) = TextRank(y) /\ x.o < y.o

\* ORDER BY due_time ASC, priority DESC (rowid decides ties)
UpcomingLess(a, b) ==
    \/ TextLess(a.due_time, b.due_time)
    \/ a.due_time = b.due_time /\ a.priority > b.priority
    \/ a.due_time = b.due_time /\ a.priority = b.priority /\ a.id < b.id

\* ORDER BY priority DESC, due_time ASC, created_at ASC
AllTasksLess(a, b) ==
    \/ a.priority > b.priority
    \/ a.priority = b.priority /\ TextLess(a.due_time, b.due_time)
    \/ a.priority = b.priority /\ a.due_time = b.due_time
       /\ a.created_at < b.created_at

\* ORDER BY created_at DESC
RecentLess(a, b) == a.created_at > b.created_at

\* ORDER BY timestamp ASC (rowid decides ties)
TimestampLess(a, b) ==
    \/ TextLess(a.timestamp, b.timestamp)
    \/ a.timestamp = b.timestamp /\ a.id < b.id

\* the ORDER BY clause named by order
RowLess(order, a, b) ==
    CASE order = "upcoming" -> UpcomingLess(a, b)
      [] order = "all" -> AllTasksLess(a, b)
      [] order = "timestamp" -> TimestampLess(a, b)
      [] OTHER -> RecentLess(a, b)

\* the rows of set S as a list in the strict total order named by order
SortedBy(S, order) ==
    CHOOSE s \in [1..Cardinality(S) -> S] :
        \A i, j \in 1..Cardinality(S) : i < j => RowLess(order, s[i], s[j])

Rows(ts) == {ts[i] : i \in DOMAIN ts}

Prefix(s, n) == SubSeq(s, 1, IF Len(s) < n THEN Len(s) ELSE n)

get_all_tasks(ts, status) ==
    SortedBy({r \in Rows(ts) : r.status = status}, "all")

get_recent_tasks(ts, status, limit) ==
    Prefix(SortedBy({r \in Rows(ts) : r.status = status}, "recent"), limit)

\* get_upcoming_tasks without the lower end of the window: every row due
\* up to t + hours, the overdue ones included
get_upcoming_tasks_closed(ts, hours, status, t) ==
    SortedBy({r \in Rows(ts) :
                /\ r.status = status
                /\ Truthy(r.due_time)
                /\ ParseOk(r.due_time)
                /\ Instant(parse_time(r.due_time)) <= t + hours * 3600},
             "upcoming")

\* get_upcoming_tasks leaving out the row due exactly at the window's end
get_upcoming_tasks_short(ts, hours, status, t) ==
    SortedBy({r \in Rows(ts) :
                /\ r.status = status
                /\ Truthy(r.due_time)
                /\ ParseOk(r.due_time)
                /\ t < Instant(parse_time(r.due_time))
                /\ Instant(parse_time(r.due_time)) < t + hours * 3600},
             "upcoming")

\* rows with the status whose due_time parses into (t, t + hours]
get_upcoming_tasks(ts, hours, status, t) ==
    SortedBy({r \in Rows(ts) :
                /\ r.status = status
                /\ Truthy(r.due_time)
                /\ ParseOk(r.due_time)
                /\ t < Instant(parse_time(r.due_time))
                /\ Instant(parse_time(r.due_time)) <= t + hours * 3600},
             "upcoming")

\* get_overdue_tasks counting a row due exactly now as overdue
get_overdue_tasks_inclusive(ts, status, t) ==
    SortedBy({r \in Rows(ts) :
                /\ r.status = status
                /\ Truthy(r.due_time)
                /\ ParseOk(r.due_time)
                /\ Instant(parse_time(r.due_time)) <= t},
             "upcoming")

\* rows with the status whose due_time parses to an instant before t
get_overdue_tasks(ts, status, t) ==
    SortedBy({r \in Rows(ts) :
                /\ r.status = status
                /\ Truthy(r.due_time)
                /\ ParseOk(r.due_time)
                /\ Instant(parse_time(r.due_time)) < t},
             "upcoming")

\* UPDATE ... WHERE id = ? touches no row when the id is absent
update_task_status(ts, id, status) ==
    IF id \in DOMAIN ts THEN [ts EXCEPT ![id].status = status] ELSE ts

update_task_due_time(ts, id, due) ==
    IF id \in DOMAIN ts THEN [ts EXCEPT ![id].due_time = due] ELSE ts

\* update_task_notification_time that also marks the row ignored
update_task_notification_time_ignoring(ts, id, t) ==
    IF id \in DOMAIN ts
    THEN [ts EXCEPT ![id].last_notified_at = get_current_time(t),
                    ![id].notification_count = @ + 1,
                    ![id].status = "ignored"]
    ELSE ts

\* database.update_task_notification_time at instant t
update_task_notification_time(ts, id, t) ==
    IF id \in DOMAIN ts
    THEN [ts EXCEPT ![id].last_notified_at = get_current_time(t),
                    ![id].notification_count = @ + 1]
    ELSE ts

\* _extract_link_or_path(content) finds a link or a path
HasLink(content) == content \in {"open https://x", "see ~/notes"}

\* category = NULL
NoCategory == "<null>"

\* ------------------------------------------------- interpreter: the values
(***************************************************************************)
(* A JSON value of the LLM's data object is a record [t, s, n, ts, at, ok]: *)
(*   t = "null"  JSON null                                                 *)
(*   t = "str"   a string s that is no ISO time and no number              *)
(*   t = "int"   the integer n                                             *)
(*   t = "iso"   a string meant as a time, with the time text ts           *)
(*   t = "obj"   a time object: s its "type", ts its "iso", n the seconds  *)
(*               of its "offset" (ok: the offset text is well-formed),     *)
(*               at its "at_time" in seconds of the day (-1: none,         *)
(*               -2: malformed)                                            *)
(* A data object is a function from the keys it holds to such values.      *)
(***************************************************************************)
JNull == [t |-> "null", s |-> "", n |-> 0, ts |-> NullTime, at |-> 0 - 1,
          ok |-> TRUE]
JStr(str) == [JNull EXCEPT !.t = "str", !.s = str]
JInt(i) == [JNull EXCEPT !.t = "int", !.n = i]
JIso(ts) == [JNull EXCEPT !.t = "iso", !.ts = ts]
JTimeNone == [JNull EXCEPT !.t = "obj", !.s = "none"]
JAbsolute(ts) == [JNull EXCEPT !.t = "obj", !.s = "absolute", !.ts = ts]
JRelative(secs, at) ==
    [JNull EXCEPT !.t = "obj", !.s = "relative", !.n = secs, !.at = at]
JRelativeBad == [JNull EXCEPT !.t = "obj", !.s = "relative", !.ok = FALSE]

EmptyDict == [k \in {} |-> JNull]

\* dict.get(key): None when the key is absent
Get(d, key) == IF key \in DOMAIN d THEN d[key] ELSE JNull

\* d with d[key] = v
Put(d, key, v) ==
    [k \in (DOMAIN d) \cup {key} |-> IF k = key THEN v ELSE d[k]]

\* d.pop(key, None)
Pop(d, key) == [k \in (DOMAIN d) \ {key} |-> d[k]]

\* Python truthiness of a JSON value
JTruthy(v) ==
    CASE v.t = "null" -> FALSE
      [] v.t = "str" -> v.s # ""
      [] v.t = "int" -> v.n # 0
      [] v.t = "iso" -> v.ts.k # "empty"
      [] OTHER -> TRUE

\* str.strip() on the strings of the model
Strip(str) ==
    CASE str = " buy oat milk " -> "buy oat milk"
      [] str = "   " -> ""
      [] OTHER -> str

\* an utterance: its text and which keyword lists it hits
NoUtterance == [text |-> "", completion |-> FALSE, cancel |-> FALSE,
                backfill |-> FALSE, correction |-> FALSE]

Utter(text, completion, cancel, backfill, correction) ==
    [text |-> text, completion |-> completion, cancel |-> cancel,
     backfill |-> backfill, correction |-> correction]

_is_backfill_past_intent(u) == u.text # "" /\ u.backfill

_is_time_correction_intent(u) == u.text # "" /\ u.correction

\* _is_completion_intent without the cancel keywords
_is_completion_intent_any(u) == u.text # "" /\ u.completion

_is_completion_intent(u) == u.text # "" /\ u.completion /\ ~u.cancel

\* parse_due_time: the text itself when it is valid ISO, else None
parse_due_time(v) == IF v.t = "iso" /\ ParseOk(v.ts) THEN v.ts ELSE NullTime

SecondsPerDay == 24 * 3600

\* target.replace(hour, minute, second=0): same day, the given time of day
AtTimeOfDay(dt, at) ==
    [w |-> (dt.w \div SecondsPerDay) * SecondsPerDay + at, o |-> dt.o]

\* _resolve_time_to_due_time_iso fails (raises)
resolve_time_fails(v) ==
    CASE v.t \in {"null", "str", "iso"} -> FALSE
      [] v.t = "int" -> TRUE
      [] v.s \in {"", "none", "null"} -> FALSE
      [] v.s = "absolute" -> v.ts.k # "null" /\ ~ParseOk(v.ts)
      [] v.s = "relative" -> ~v.ok \/ v.at = 0 - 2
      [] OTHER -> TRUE

\* _resolve_time_to_due_time_iso(time_obj, now=t) when it does not fail
_resolve_time_to_due_time_iso(v, t) ==
    CASE v.t \in {"str", "iso"} -> parse_due_time(v)
      [] v.t = "obj" /\ v.s = "absolute" -> parse_due_time(JIso(v.ts))
      [] v.t = "obj" /\ v.s = "relative" ->
            LET target == [w |-> t + v.n + LocalOffset, o |-> LocalOffset]
            IN  isoformat(IF v.at >= 0 THEN AtTimeOfDay(target, v.at)
                          ELSE target)
      [] OTHER -> NullTime

\* the past-deadline check with a tolerance of 30 minutes
_validate_due_time_not_past_minutes(due, t, u) ==
    IF ~Truthy(due) THEN TRUE
    ELSE IF _is_backfill_past_intent(u) THEN TRUE
    ELSE IF ~ParseOk(due) THEN FALSE
    ELSE Instant(parse_time(due)) >= t - 30 * 60

\* tolerance of the past-deadline check, seconds
PastGraceSeconds == 30

\* _validate_due_time_not_past(due_time, now=t, user_text=u)
_validate_due_time_not_past(due, t, u) ==
    IF ~Truthy(due) THEN TRUE
    ELSE IF _is_backfill_past_intent(u) THEN TRUE
    ELSE IF ~ParseOk(due) THEN FALSE
    ELSE Instant(parse_time(due)) >= t - PastGraceSeconds

\* validate_priority passing any integer through
validate_priority_unclamped(v) ==
    IF v.t = "int" THEN v.n ELSE 3

\* validate_priority: an integer in 1..5, else 3
validate_priority(v) ==
    IF v.t = "int" /\ 1 <= v.n /\ v.n <= 5 THEN v.n ELSE 3

\* validate_sentiment
validate_sentiment(v) ==
    IF v.t = "str" /\ v.s \in {"positive", "neutral", "negative"} THEN v.s
    ELSE "neutral"

\* int(task_id) succeeds; 0 stands for None
IntOf(v) == IF v.t = "int" THEN v.n ELSE 0

\* _normalize_task_id: the proposed id when it is a candidate, else the first
\* candidate; 0 (None) without candidates
_normalize_task_id(v, candidates) ==
    IF Len(candidates) = 0 THEN 0
    ELSE IF v.t = "int" /\ v.n \in {candidates[i].id : i \in DOMAIN candidates}
         THEN v.n
    ELSE candidates[1].id

\* _pick_recent_pending(limit)
_pick_recent_pending(ts, limit) == get_recent_tasks(ts, "pending", limit)

IdleInterp == [pc |-> "ready", utt |-> NoUtterance, raw_record_id |-> 0,
               attempt |-> 0, calls |-> 0, done |-> 0, t0 |-> 0,
               rejections |-> 0, why |-> "none"]

NoLast == [utt |-> NoUtterance, action |-> "none", data |-> EmptyDict,
           before |-> <<>>, outcome |-> "none", reply |-> "", calls |-> 0,
           target |-> 0, logs |-> 0, asked |-> "none", shape |-> "none",
           parsed |-> EmptyDict, prefs0 |-> {}, hlen |-> 0,
           recorded |-> FALSE, rejections |-> 0, ml0 |-> <<>>]

\* no interpreter is running
InterpQuiet ==
    /\ memory_logs = <<>>
    /\ prefs = {}
    /\ history = <<>>
    /\ interp = IdleInterp
    /\ lastRun = NoLast

\* ------------------------------------------------------------------ daemon
NoCall == [caller |-> "none", outcome |-> "none", owner |-> "free"]

NoRow == [id |-> 0, content |-> "", due_time |-> NullTime,
         category |-> NoCategory,
          priority |-> 0, status |-> "", created_at |-> 0,
          last_notified_at |-> NullTime, notification_count |-> 0]

\* no postpone prompt was answered
NoAnswer == [kind |-> "none", n |-> 0]

NoResponse == [id |-> 0, resp |-> "none", minutes |-> 0, before |-> NoRow,
               at |-> 0, answer |-> NoAnswer]

\* the task entries update_menu adds: the first MenuLimit pending tasks
MenuOf(ts) ==
    LET rows == Prefix(get_all_tasks(ts, "pending"), MenuLimit)
    IN  [i \in 1..Len(rows) |-> rows[i].id]

\* update_menu: lock.acquire(blocking=False) fails while anyone holds the
\* lock and the call returns without touching the menu
update_menu(owner, ts, old) ==
    IF owner # "free" THEN old ELSE MenuOf(ts)

MenuCallOf(caller, owner) ==
    [caller |-> caller,
     outcome |-> IF owner # "free" THEN "skipped" ELSE "rebuilt",
     owner |-> owner]

\* postpone_task: a row without due_time, or one that does not parse, is
\* left alone (returns False); otherwise due_time := isoformat(due + minutes)
\* and the notification bookkeeping is updated
postpone_ok(ts, id) ==
    /\ id \in DOMAIN ts
    /\ ts[id].due_time.k # "null"
    /\ ParseOk(ts[id].due_time)

\* postpone_task shifting from the current time instead of the stored due_time
postpone_task_from_now(ts, id, minutes, t) ==
    IF postpone_ok(ts, id)
    THEN update_task_notification_time(
             update_task_due_time(ts, id,
                 isoformat(PlusSeconds(
                     [w |-> t + parse_time(ts[id].due_time).o,
                      o |-> parse_time(ts[id].due_time).o], minutes * 60))),
             id, t)
    ELSE ts

postpone_task(ts, id, minutes, t) ==
    IF postpone_ok(ts, id)
    THEN update_task_notification_time(
             update_task_due_time(ts, id,
                 isoformat(PlusSeconds(parse_time(ts[id].due_time),
                                       minutes * 60))),
             id, t)
    ELSE ts

\* what show_task_dialog can return to the scan.  "Timeout" is
\* subprocess.TimeoutExpired, "ExecError" any other exception of the call:
\* both return None.  "ScriptError" is the script's own `on error` branch,
\* which returns the Dismiss button.
DialogOutcomes ==
    {"Complete", "Postpone", "Dismiss", "GoNow", "GoNowFail", "Timeout",
     "ScriptError", "ExecError"}

\* answers to the postpone prompt: "cancel", "blank", "text" (not a number),
\* "error" (the window raised), or "int" with the number entered
PromptAnswers ==
    {[kind |-> k, n |-> 0] : k \in {"cancel", "blank", "text", "error"}}
    \cup {[kind |-> "int", n |-> n] : n \in {0 - 5, 0, 1, 5000}}

\* ask_postpone_minutes: None on cancel, the default on blank, non-numeric
\* or failing input, else the integer
ask_postpone_minutes(a) ==
    CASE a.kind = "cancel" -> [none |-> TRUE, n |-> 0]
      [] a.kind = "int" -> [none |-> FALSE, n |-> a.n]
      [] OTHER -> [none |-> FALSE, n |-> DefaultPostponeMinutes]

Min(a, b) == IF a < b THEN a ELSE b

\* the Postpone branch treating an entry <= 0 like a cancelled prompt
handle_postpone_dropping(ts, id, m, t) ==
    IF m.none \/ m.n <= 0 THEN ts
    ELSE postpone_task(ts, id, Min(m.n, PostponeClampMinutes), t)

\* the Postpone branch without the upper clamp
handle_postpone_unclamped(ts, id, m, t) ==
    IF m.none THEN ts
    ELSE IF m.n <= 0 THEN update_task_notification_time(ts, id, t)
    ELSE postpone_task(ts, id, m.n, t)

\* the Postpone branch of handle_dialog_response once the prompt returned
\* m: nothing on cancel, the Dismiss bookkeeping for m <= 0, else
\* postpone_task by min(m, 4320)
handle_postpone(ts, id, m, t) ==
    IF m.none THEN ts
    ELSE IF m.n <= 0 THEN update_task_notification_time(ts, id, t)
    ELSE postpone_task(ts, id, Min(m.n, PostponeClampMinutes), t)

\* a scan that releases the lock only on its normal path
lock_after_scan_held(failed) == IF failed THEN "scan" ELSE "free"

\* the lock after check_and_notify leaves its with-block, by return or by
\* an exception
lock_after_scan(failed) == "free"

Tick ==
    /\ pc \in {"idle", "prompt"}
    /\ now + ClockStep <= MaxNow
    /\ now' = now + ClockStep
    /\ UNCHANGED <<tasks, daemonVars, probe, result, interpVars>>

\* the menu timer fires on the idle UI thread
MenuTick ==
    /\ pc = "idle"
    /\ menu' = update_menu(lock, tasks, menu)
    /\ menuCall' = MenuCallOf("tick", lock)
    /\ handled' = NoResponse
    /\ UNCHANGED <<tasks, now, lock, pc, fetched, idx, shown, probe, result, interpVars>>

\* the check timer fires: check_and_notify takes the lock and fetches
ScanStart ==
    /\ pc = "idle"
    /\ lock = "free"
    /\ lock' = "scan"
    /\ fetched' = get_upcoming_tasks(tasks, ScanWindowHours, "pending", now)
    /\ idx' = 1
    /\ pc' = "loop"
    /\ handled' = NoResponse
    /\ UNCHANGED <<tasks, now, menu, menuCall, shown, probe, result, interpVars>>

\* the check timer fires and get_upcoming_tasks raises (sqlite3.Error): the
\* exception leaves the with-block, is logged, and check_and_notify returns
ScanFetchFail ==
    /\ pc = "idle"
    /\ lock = "free"
    /\ lock' = lock_after_scan(TRUE)
    /\ handled' = [NoResponse EXCEPT !.resp = "ScanFailed", !.at = now]
    /\ UNCHANGED <<tasks, now, pc, fetched, idx, menu, menuCall, shown, probe,
                   result, interpVars>>

\* should_notify_task says no: next task
ScanSkip ==
    /\ pc = "loop"
    /\ idx <= Len(fetched)
    /\ ~should_notify_task(fetched[idx], now)
    /\ idx' = idx + 1
    /\ handled' = NoResponse
    /\ UNCHANGED <<tasks, now, lock, pc, fetched, menu, menuCall, shown,
                   probe, result, interpVars>>

\* a loop that stops at the first task whose processing raises
next_after_exception_abort(i, n) == n + 1

\* the inner handlers of check_and_notify (except ValueError / except
\* Exception: continue): the position of the loop after task i of n raised
next_after_exception(i, n) == i + 1

\* processing the current task raises before any dialog is open (the
\* should_notify_task call or the logging around it): the inner handler logs
\* the failure and the loop continues
ScanTaskRaises ==
    /\ pc = "loop"
    /\ idx <= Len(fetched)
    /\ idx' = next_after_exception(idx, Len(fetched))
    /\ handled' = [NoResponse EXCEPT !.resp = "TaskFailed",
                                     !.id = fetched[idx].id, !.at = now]
    /\ UNCHANGED <<tasks, now, lock, pc, fetched, menu, menuCall, shown,
                   probe, result, interpVars>>

\* should_notify_task says yes: show_task_dialog opens the dialog
ScanShowDialog ==
    /\ pc = "loop"
    /\ idx <= Len(fetched)
    /\ should_notify_task(fetched[idx], now)
    /\ fetched[idx].id \in DOMAIN tasks
    /\ shown[fetched[idx].id] < MaxShown
    /\ shown' = [shown EXCEPT ![fetched[idx].id] = @ + 1]
    /\ pc' = "dialog"
    /\ handled' = NoResponse
    /\ UNCHANGED <<tasks, now, lock, fetched, idx, menu, menuCall, probe,
                   result, interpVars>>

\* the rows after handle_dialog_response for every outcome but Postpone
RespondTasks(r, id) ==
    CASE r = "Complete" -> update_task_status(tasks, id, "done")
      [] r \in {"Dismiss", "ScriptError"} ->
            update_task_notification_time(tasks, id, now)
      [] r = "GoNow" -> update_task_notification_time(tasks, id, now)
      [] OTHER -> tasks

\* the dialog returns (or fails) and the response is handled
DialogRespond(r) ==
    LET id == fetched[idx].id IN
    /\ pc = "dialog"
    /\ r # "Postpone"
    /\ r \in {"GoNow", "GoNowFail"} => HasLink(tasks[id].content)
    /\ tasks' = RespondTasks(r, id)
    /\ menu' = IF r = "Complete" THEN update_menu(lock, tasks', menu) ELSE menu
    /\ menuCall' = IF r = "Complete" THEN MenuCallOf("complete", lock)
                   ELSE menuCall
    /\ handled' = [id |-> id, resp |-> r, minutes |-> 0, before |-> tasks[id],
                   at |-> now, answer |-> NoAnswer]
    /\ idx' = idx + 1
    /\ pc' = "loop"
    /\ UNCHANGED <<now, lock, fetched, shown, probe, result, interpVars>>

\* Postpone: the second dialog asks for the minutes
DialogPostpone ==
    /\ pc = "dialog"
    /\ pc' = "prompt"
    /\ UNCHANGED <<tasks, now, lock, fetched, idx, menu, menuCall, shown,
                   handled, probe, result, interpVars>>

\* the postpone prompt is answered
PromptRespond(a) ==
    LET id == fetched[idx].id
        m == ask_postpone_minutes(a)
        shift == Min(m.n, PostponeClampMinutes)
        moved == ~m.none /\ m.n > 0 /\ postpone_ok(tasks, id)
    IN
    /\ pc = "prompt"
    /\ tasks' = handle_postpone(tasks, id, m, now)
    /\ menu' = IF moved THEN update_menu(lock, tasks', menu) ELSE menu
    /\ menuCall' = IF moved THEN MenuCallOf("postpone", lock) ELSE menuCall
    /\ handled' = [id |-> id,
                   resp |-> IF m.none THEN "PostponeCancel"
                            ELSE IF m.n <= 0 THEN "PostponeZero"
                            ELSE "Postpone",
                   minutes |-> IF moved THEN shift ELSE 0,
                   before |-> tasks[id], at |-> now, answer |-> a]
    /\ idx' = idx + 1
    /\ pc' = "loop"
    /\ UNCHANGED <<now, lock, fetched, shown, probe, result, interpVars>>

\* the list is exhausted: the with-block releases the lock
ScanEnd ==
    /\ pc = "loop"
    /\ idx > Len(fetched)
    /\ lock' = lock_after_scan(FALSE)
    /\ pc' = "idle"
    /\ fetched' = <<>>
    /\ idx' = 1
    /\ handled' = NoResponse
    /\ UNCHANGED <<tasks, now, menu, menuCall, shown, probe, result, interpVars>>

\* rows the store can hold when the daemon starts
Row(id, content, due, priority, last, count) ==
    [id |-> id, content |-> content, due_time |-> due, category |-> NoCategory,
     priority |-> priority, status |-> "pending", created_at |-> id,
     last_notified_at |-> last, notification_count |-> count]

SeedRows(id) ==
    { Row(id, "call mom", IsoAt(600, LocalOffset), 5, NullTime, 0),
      Row(id, "open https://x", NaiveAt(1200), 4,
          IsoAt(0 - 600, LocalOffset), 4),
      Row(id, "see ~/notes", ZuluAt(600), 3, IsoAt(0 - 1800, LocalOffset), 2),
      Row(id, "drink water", IsoAt(900, LocalOffset), 1, NullTime, 0),
      Row(id, "stretch", IsoAt(300, 0), 2, BadTime, 0),
      Row(id, "pay rent", IsoAt(0 - 300, LocalOffset), 5, NullTime, 0),
      Row(id, "book flight", IsoAt(4500, LocalOffset), 3, EmptyTime, 0),
      Row(id, "someday", NullTime, 4, NullTime, 0) }

InitProbe == [priority |-> 3, notification_count |-> 0,
              last_notified_at |-> NullTime]

Init ==
    /\ tasks \in {<<a, b>> : a \in SeedRows(1), b \in SeedRows(2)}
    /\ now = 0
    /\ lock = "free"
    /\ pc = "idle"
    /\ fetched = <<>>
    /\ idx = 1
    /\ menu = MenuOf(tasks)
    /\ menuCall = MenuCallOf("startup", "free")
    /\ shown = [i \in DOMAIN tasks |-> 0]
    /\ handled = NoResponse
    /\ probe = InitProbe
    /\ result = "unset"
    /\ InterpQuiet

Next ==
    \/ Tick
    \/ MenuTick
    \/ ScanStart
    \/ ScanFetchFail
    \/ ScanSkip
    \/ ScanShowDialog
    \/ \E r \in DialogOutcomes : DialogRespond(r)
    \/ DialogPostpone
    \/ \E a \in PromptAnswers : PromptRespond(a)
    \/ ScanEnd

Spec == Init /\ [][Next]_vars

\* the daemon with tasks whose processing can raise inside the scan
NextScan ==
    \/ Next
    \/ ScanTaskRaises

SpecScan == Init /\ [][NextScan]_vars

\* ------------------------------------------- scans at the check interval
\* seconds between two scan ticks
PL_DAEMON_CHECK_INTERVAL == 60

\* two never-notified tasks due at different times, and one task alone
RemindSeeds ==
    { <<Row(1, "call mom", IsoAt(300, LocalOffset), 5, NullTime, 0),
        Row(2, "drink water", IsoAt(600, LocalOffset), 1, NullTime, 0)>>,
      <<Row(1, "see ~/notes", ZuluAt(600), 3, NullTime, 0),
        Row(2, "pay rent", NaiveAt(600), 4, NullTime, 0)>>,
      <<Row(1, "call mom", IsoAt(600, LocalOffset), 5, NullTime, 0)>> }

InitRemind ==
    /\ tasks \in RemindSeeds
    /\ now = 0
    /\ lock = "free"
    /\ pc = "idle"
    /\ fetched = <<>>
    /\ idx = 1
    /\ menu = MenuOf(tasks)
    /\ menuCall = MenuCallOf("startup", "free")
    /\ shown = [i \in DOMAIN tasks |-> 0]
    /\ handled = NoResponse
    /\ probe = InitProbe
    /\ result = "scan due"
    /\ InterpQuiet

\* the clock moves on by one step.  The check timer fires every
\* PL_DAEMON_CHECK_INTERVAL seconds, less than a step, so on an idle UI
\* thread a scan has run since the last step; an open postpone prompt has
\* no timeout and keeps the thread for as long as the user takes
RemindTick ==
    /\ pc \in {"idle", "prompt"}
    /\ pc = "idle" => result = "scanned"
    /\ PL_DAEMON_CHECK_INTERVAL <= ClockStep
    /\ now + ClockStep <= MaxNow
    /\ now' = now + ClockStep
    /\ result' = "scan due"
    /\ UNCHANGED <<tasks, daemonVars, probe, interpVars>>

\* the list is exhausted: the with-block releases the lock and
\* check_and_notify returns; the scan of this tick has run
RemindScanEnd ==
    /\ pc = "loop"
    /\ idx > Len(fetched)
    /\ lock' = lock_after_scan(FALSE)
    /\ pc' = "idle"
    /\ fetched' = <<>>
    /\ idx' = 1
    /\ handled' = NoResponse
    /\ result' = "scanned"
    /\ UNCHANGED <<tasks, now, menu, menuCall, shown, probe, interpVars>>

\* the steps of one scan up to its end
RemindProgress ==
    \/ ScanStart
    \/ ScanSkip
    \/ ScanShowDialog
    \/ \E r \in DialogOutcomes : DialogRespond(r)
    \/ DialogPostpone
    \/ \E a \in PromptAnswers : PromptRespond(a)
    \/ RemindScanEnd

NextRemind ==
    \/ RemindTick
    \/ RemindProgress

\* scans keep firing, every dialog returns and every prompt is answered
SpecRemind == InitRemind /\ [][NextRemind]_vars /\ WF_vars(RemindProgress)

\* ------------------------------------------- should_notify_task on its own
\* largest notification_count tried
MaxCount == 6

\* seconds since the last notification that are tried
ElapsedSamples == {0 - 60, 0, 600, 899, 900, 901, 1200, 1799, 1800, 1801}

LastNotifiedSamples ==
    {NullTime, EmptyTime, BadTime}
    \cup {IsoAt(0 - e, LocalOffset) : e \in ElapsedSamples}
    \cup {NaiveAt(0 - e) : e \in ElapsedSamples}
    \cup {ZuluAt(0 - e) : e \in ElapsedSamples}

InitNotify ==
    /\ probe \in [priority : 1..5,
                  notification_count : 0..MaxCount,
                  last_notified_at : LastNotifiedSamples]
    /\ result = "unset"
    /\ InterpQuiet
    /\ tasks = <<>>
    /\ now = 0
    /\ lock = "free"
    /\ pc = "idle"
    /\ fetched = <<>>
    /\ idx = 1
    /\ menu = <<>>
    /\ menuCall = NoCall
    /\ shown = <<>>
    /\ handled = NoResponse

EvaluateNotify ==
    /\ result = "unset"
    /\ result' = IF should_notify_task(probe, now) THEN "yes" ELSE "no"
    /\ UNCHANGED <<tasks, now, daemonVars, probe, interpVars>>

NextNotify == EvaluateNotify

SpecNotify == InitNotify /\ [][NextNotify]_vars

\* ----------------------------------------------- postpone_task on its own
\* postpone_task calls made on the one row
MaxPostpones == 2

PostponeMinutes == {1, 30, 4320}

DueSamples ==
    {IsoAt(600, LocalOffset), IsoAt(0 - 7200, LocalOffset), NaiveAt(0 - 7200),
     ZuluAt(300), IsoAt(1200, 0), NullTime, EmptyTime, BadTime}

InitPostpone ==
    /\ \E d \in DueSamples, st \in {"pending", "done"} :
         /\ tasks = <<[Row(1, "call mom", d, 3, NullTime, 0)
                         EXCEPT !.status = st]>>
         /\ probe = [due0 |-> IF ParseOk(d) THEN Instant(parse_time(d)) ELSE 0,
                     sum |-> 0, calls |-> 0, row0 |-> tasks[1]]
    /\ result = "unset"
    /\ InterpQuiet
    /\ now = 0
    /\ lock = "free"
    /\ pc = "idle"
    /\ fetched = <<>>
    /\ idx = 1
    /\ menu = <<>>
    /\ menuCall = NoCall
    /\ shown = <<>>
    /\ handled = NoResponse

\* postpone_task(1, m) is called
PostponeCall(m) ==
    /\ probe.calls < MaxPostpones
    /\ tasks' = postpone_task(tasks, 1, m, now)
    /\ probe' = [probe EXCEPT !.calls = @ + 1,
                              !.sum = IF postpone_ok(tasks, 1) THEN @ + m ELSE @]
    /\ result' = IF postpone_ok(tasks, 1) THEN "True" ELSE "False"
    /\ UNCHANGED <<now, daemonVars, interpVars>>

NextPostpone ==
    \/ \E m \in PostponeMinutes : PostponeCall(m)
    \/ Tick

SpecPostpone == InitPostpone /\ [][NextPostpone]_vars

\* ---------------------------------------------- interpreter: the pipeline
\* entries kept in _conversation_history
HistoryLimit == 3

\* ai_response = None
NoReply == "<none>"

\* context_tag = NULL
NoTag == "<none>"

\* add_to_history(user_input, ai_response)
add_to_history(h, user, ai) ==
    LET h2 == Append(h, [user |-> user, ai |-> ai])
    IN  IF Len(h2) > HistoryLimit
        THEN SubSeq(h2, Len(h2) - HistoryLimit + 1, Len(h2))
        ELSE h2

\* add_task accepting every priority
add_task_raises_never(priority) == FALSE

\* database.add_task raises ValueError unless 1 <= priority <= 5
add_task_raises(priority) ==
    ~(1 <= priority /\ priority <= 5)

\* add_task leaving the priority column to its default
add_task_default_priority(ts, content, due, category, priority) ==
    IF add_task_raises(priority) THEN ts
    ELSE Append(ts, [id |-> Len(ts) + 1, content |-> content,
                     due_time |-> due, category |-> category, priority |-> 3,
                     status |-> "pending", created_at |-> Len(ts) + 1,
                     last_notified_at |-> NullTime, notification_count |-> 0])

\* database.add_task: nothing is inserted when it raises; else the new row
\* gets the next id, the values given and the columns' defaults
add_task(ts, content, due, category, priority) ==
    IF add_task_raises(priority) THEN ts
    ELSE Append(ts, [id |-> Len(ts) + 1, content |-> content,
                     due_time |-> due, category |-> category,
                     priority |-> priority,
                     status |-> "pending", created_at |-> Len(ts) + 1,
                     last_notified_at |-> NullTime, notification_count |-> 0])

\* database.get_task_by_id: the row, or NoRow (None) when the id is absent
get_task_by_id(ts, id) == IF id \in DOMAIN ts THEN ts[id] ELSE NoRow

\* record_interaction binding sentiment and tag to each other's column
record_interaction_swapped(ml, content, sentiment, tag) ==
    Append(ml, [content |-> content, sentiment |-> tag, tag |-> sentiment,
                timestamp |-> get_current_time(now), is_processed |-> 0])

\* database.record_interaction: the row is stamped get_current_time() and
\* is_processed takes the column's default
record_interaction(ml, content, sentiment, tag) ==
    Append(ml, [content |-> content, sentiment |-> sentiment, tag |-> tag,
                timestamp |-> get_current_time(now), is_processed |-> 0])

\* database.update_interaction
update_interaction(ml, id, sentiment, tag) ==
    IF id \in DOMAIN ml
    THEN [ml EXCEPT ![id].sentiment = sentiment, ![id].tag = tag]
    ELSE ml

\* SELECT id, content, sentiment, context_tag, timestamp of memory log id
LogRow(ml, id) ==
    [id |-> id, content |-> ml[id].content, sentiment |-> ml[id].sentiment,
     tag |-> ml[id].tag, timestamp |-> ml[id].timestamp]

\* get_unprocessed_memory_logs returning processed rows too
get_unprocessed_memory_logs_all(ml, days, limit, t) ==
    LET sorted == SortedBy({LogRow(ml, id) : id \in DOMAIN ml}, "timestamp")
        kept == SelectSeq(sorted, LAMBDA r :
                    /\ Truthy(r.timestamp)
                    /\ ParseOk(r.timestamp)
                    /\ Instant(parse_time(r.timestamp))
                          >= t - days * SecondsPerDay)
    IN  Prefix(kept, IF limit < 1 THEN 1 ELSE limit)

\* database.get_unprocessed_memory_logs at instant t: the rows with
\* is_processed = 0 by ascending timestamp, those stamped at or after
\* t - days kept, the loop left once limit rows are collected (the test
\* follows the append, so at least one row is collected)
get_unprocessed_memory_logs(ml, days, limit, t) ==
    LET sorted == SortedBy({LogRow(ml, id) : id \in
                               {i \in DOMAIN ml : ml[i].is_processed = 0}},
                           "timestamp")
        kept == SelectSeq(sorted, LAMBDA r :
                    /\ Truthy(r.timestamp)
                    /\ ParseOk(r.timestamp)
                    /\ Instant(parse_time(r.timestamp))
                          >= t - days * SecondsPerDay)
    IN  Prefix(kept, IF limit < 1 THEN 1 ELSE limit)

\* database.mark_memory_log_processed
mark_memory_log_processed(ml, id) ==
    IF id \in DOMAIN ml THEN [ml EXCEPT ![id].is_processed = 1] ELSE ml

\* confidence is kept in hundredths
PL_HABIT_BOOST == 10
PL_HABIT_INITIAL_CONFIDENCE == 50
FullConfidence == 100

\* update_habit raises ValueError before touching the table
update_habit_raises(boost, source) ==
    \/ boost < 0
    \/ boost > FullConfidence
    \/ source \notin {"user_said", "ai_inferred"}

\* update_habit adding the boost to an existing row without the cap
update_habit_uncapped(pf, key, value, boost, source) ==
    IF update_habit_raises(boost, source) THEN pf
    ELSE IF \E r \in pf : r.key = key
    THEN {IF r.key = key
          THEN [r EXCEPT !.value = value, !.source = source,
                         !.confidence = @ + boost]
          ELSE r : r \in pf}
    ELSE pf \cup {[key |-> key, value |-> value, source |-> source,
                   confidence |-> Min(FullConfidence,
                                      PL_HABIT_INITIAL_CONFIDENCE + boost)]}

\* database.update_habit
update_habit(pf, key, value, boost, source) ==
    IF update_habit_raises(boost, source) THEN pf
    ELSE IF \E r \in pf : r.key = key
    THEN {IF r.key = key
          THEN [r EXCEPT !.value = value, !.source = source,
                         !.confidence = Min(FullConfidence, @ + boost)]
          ELSE r : r \in pf}
    ELSE pf \cup {[key |-> key, value |-> value, source |-> source,
                   confidence |-> Min(FullConfidence,
                                      PL_HABIT_INITIAL_CONFIDENCE + boost)]}

\* what the LLM call can produce: the call raises, the text is empty, the
\* text holds no JSON object (or the object {}), or it parses to an object.
\* Of the object: whether "action" is there and is a string, and whether
\* "data" is there and is an object.
LLM(kind, actionKind, action, dataKind, data) ==
    [kind |-> kind, actionKind |-> actionKind, action |-> action,
     dataKind |-> dataKind, data |-> data]

Json(action, data) == LLM("json", "str", action, "dict", data)

\* a loop that allows a third attempt
LoopContinues_thrice(attempt) == attempt + 1 < 3

\* `for attempt in range(2)`: after a rejected attempt the loop goes on
LoopContinues(attempt) == attempt + 1 < 2

\* one pass of get_ai_interpretation's loop over a response: why the pass
\* ends in `continue`, "none" when the response is returned
RejectReason(r, u, t) ==
    LET data == IF r.dataKind = "dict" THEN r.data ELSE EmptyDict
        timed == r.actionKind = "str" /\ r.action \in {"add_task", "update_task"}
        cand == IF "time" \in DOMAIN data
                THEN _resolve_time_to_due_time_iso(data["time"], t)
                ELSE IF "due_time" \in DOMAIN data
                     THEN parse_due_time(data["due_time"])
                     ELSE NullTime
    IN  CASE r.kind = "raise" -> "call failure"
          [] r.kind = "empty" -> "empty response"
          [] r.kind = "nojson" -> "unparsable"
          [] r.kind = "json" /\ timed /\ "time" \in DOMAIN data
             /\ resolve_time_fails(data["time"]) -> "time resolution"
          [] r.kind = "json" /\ timed
             /\ ~("time" \in DOMAIN data /\ resolve_time_fails(data["time"]))
             /\ Truthy(cand)
             /\ ~_validate_due_time_not_past(cand, t, u) -> "past deadline"
          [] OTHER -> "none"

\* the pass over the response ends in `continue`
AttemptRejected(r, u, t) == RejectReason(r, u, t) # "none"

\* the object get_ai_interpretation returns for an accepted response: for
\* add_task and update_task "time" is removed and "due_time" is always set
AttemptParsed(r, t) ==
    LET data == IF r.dataKind = "dict" THEN r.data ELSE EmptyDict
        timed == r.actionKind = "str" /\ r.action \in {"add_task", "update_task"}
        cand == IF "time" \in DOMAIN data
                THEN _resolve_time_to_due_time_iso(data["time"], t)
                ELSE IF "due_time" \in DOMAIN data
                     THEN parse_due_time(data["due_time"])
                     ELSE NullTime
    IN  IF timed
        THEN [r EXCEPT !.dataKind = "dict",
                       !.data = Put(Pop(data, "time"), "due_time",
                                    IF cand = NullTime THEN JNull
                                    ELSE JIso(cand))]
        ELSE r

ValidActions ==
    {"add_task", "add_preference", "record_memory", "query_tasks",
     "update_task", "cancel_task", "chat"}

\* validate_action_data returns (action, data) and not (None, None)
validate_action_data(parsed) ==
    /\ parsed.actionKind # "missing"
    /\ parsed.dataKind # "missing"
    /\ parsed.actionKind = "str"
    /\ parsed.dataKind = "dict"
    /\ parsed.action \in ValidActions

\* process_user_input's check after validation: `if not action or not data`
\* (an empty data object is falsy)
ShapeAccepted(parsed) ==
    /\ validate_action_data(parsed)
    /\ parsed.data # EmptyDict

\* what a dispatch branch leaves: the stores, the history, the return value
Out(ts, ml, pf, h, outcome, reply, target) ==
    [tasks |-> ts, memory_logs |-> ml, prefs |-> pf, history |-> h,
     outcome |-> outcome, reply |-> reply, target |-> target]

\* the text SQLite stores for a JSON string or number
TextOf(v) == IF v.t = "int" THEN ToString(v.n) ELSE v.s

\* the category or tag column for a JSON value
CategoryOf(v) == IF v.t = "null" THEN NoCategory ELSE TextOf(v)

\* process_user_input, action add_task (h1: history after the first entry)
DispatchAddTask(data, u, ts, ml, pf, h1) ==
    IF ~JTruthy(Get(data, "content"))
    THEN Out(ts, ml, pf, h1, FALSE, "content empty", 0)
    ELSE Out(add_task(ts, TextOf(Get(data, "content")),
                      parse_due_time(Get(data, "due_time")),
                      CategoryOf(Get(data, "category")),
                      validate_priority(Get(data, "priority"))),
             ml, pf, add_to_history(h1, u.text, "task added"),
             TRUE, "task added", Len(ts) + 1)

\* process_user_input, action add_preference
DispatchAddPreference(data, u, ts, ml, pf, h1) ==
    LET source == IF "source" \in DOMAIN data
                     /\ data["source"] = JStr("user_said")
                  THEN "user_said" ELSE "ai_inferred"
    IN  IF ~JTruthy(Get(data, "key")) \/ ~JTruthy(Get(data, "value"))
        THEN Out(ts, ml, pf, h1, FALSE, "key or value empty", 0)
        ELSE Out(ts, ml,
                 update_habit(pf, TextOf(Get(data, "key")),
                              TextOf(Get(data, "value")), PL_HABIT_BOOST,
                              source),
                 add_to_history(h1, u.text, "habit learned"),
                 TRUE, "habit learned", 0)

\* the tag column for a JSON value
TagOf(v) == IF v.t = "null" THEN NoTag ELSE TextOf(v)

\* record_memory inserting a row of its own whatever step 1 did
DispatchRecordMemory_inserting(data, u, ts, ml, pf, h1, raw_record_id) ==
    Out(ts,
        record_interaction(ml, u.text,
                           validate_sentiment(Get(data, "sentiment")),
                           TagOf(Get(data, "tag"))),
        pf, add_to_history(h1, u.text, "memory recorded"),
        TRUE, "memory recorded", 0)

\* process_user_input, action record_memory: the utterance's own row is
\* updated when step 1 recorded it, else a row is inserted
DispatchRecordMemory(data, u, ts, ml, pf, h1, raw_record_id) ==
    LET sentiment == validate_sentiment(Get(data, "sentiment"))
        tag == TagOf(Get(data, "tag"))
    IN  Out(ts,
            IF raw_record_id # 0
            THEN update_interaction(ml, raw_record_id, sentiment, tag)
            ELSE record_interaction(ml, u.text, sentiment, tag),
            pf, add_to_history(h1, u.text, "memory recorded"),
            TRUE, "memory recorded", 0)

\* update_task choosing the most recent pending task whenever there is one
UpdateTarget_first(data, ts) ==
    LET v == Get(data, "task_id")
        candidates == get_recent_tasks(ts, "pending", 3)
        id == IF v.t = "null"
              THEN IF Len(candidates) >= 1 THEN candidates[1].id ELSE 0
              ELSE IntOf(v)
    IN  IF id \in DOMAIN ts THEN id ELSE 0

\* update_task: the id it works on, 0 when it gives up before any write
UpdateTarget(data, ts) ==
    LET v == Get(data, "task_id")
        candidates == get_recent_tasks(ts, "pending", 3)
        id == IF v.t = "null"
              THEN IF Len(candidates) = 1 THEN candidates[1].id ELSE 0
              ELSE IntOf(v)
    IN  IF id \in DOMAIN ts THEN id ELSE 0

\* update_task: the content supplied is no string or is blank
UpdateContentBad(data) ==
    /\ "content" \in DOMAIN data
    /\ data["content"].t # "null"
    /\ \/ data["content"].t # "str"
       \/ Strip(data["content"].s) = ""

\* update_task: the writes, in the code's order
UpdateWrites(data, old, ts) ==
    LET id == old.id
        t1 == IF /\ "content" \in DOMAIN data
                 /\ data["content"].t = "str"
                 /\ Strip(data["content"].s) # old.content
              THEN [ts EXCEPT ![id].content = Strip(data["content"].s)]
              ELSE ts
        t2 == IF "due_time" \in DOMAIN data
              THEN update_task_due_time(t1, id,
                                        parse_due_time(data["due_time"]))
              ELSE t1
        t3 == IF /\ "priority" \in DOMAIN data
                 /\ validate_priority(data["priority"]) # old.priority
              THEN [t2 EXCEPT ![id].priority =
                                  validate_priority(data["priority"])]
              ELSE t2
    IN  IF /\ "category" \in DOMAIN data
           /\ CategoryOf(data["category"]) # old.category
        THEN [t3 EXCEPT ![id].category = CategoryOf(data["category"])]
        ELSE t3

\* process_user_input, action update_task
DispatchUpdateTask(data, u, ts, ml, pf, h1) ==
    LET id == UpdateTarget(data, ts)
    IN  IF id = 0
        THEN Out(ts, ml, pf, h1, FALSE, "no task to update", 0)
        ELSE IF UpdateContentBad(data)
        THEN Out(ts, ml, pf, h1, FALSE, "content empty", id)
        ELSE LET ts2 == UpdateWrites(data, ts[id], ts)
                 reply == IF ts2 = ts THEN "task unchanged"
                          ELSE "task updated"
             IN  Out(ts2, ml, pf, add_to_history(h1, u.text, reply),
                     TRUE, reply, id)

\* process_user_input, action cancel_task
DispatchCancelTask(data, u, ts, ml, pf, h1) ==
    LET id == _normalize_task_id(Get(data, "task_id"),
                                 _pick_recent_pending(ts, 5))
    IN  IF id = 0
        THEN Out(ts, ml, pf, h1, FALSE, "nothing to cancel", 0)
        ELSE Out(update_task_status(ts, id, "cancelled"), ml, pf,
                 add_to_history(h1, u.text, "task cancelled"),
                 TRUE, "task cancelled", id)

\* process_user_input, action chat
DispatchChat(data, u, ts, ml, pf, h1) ==
    LET reply == IF JTruthy(Get(data, "reply"))
                 THEN TextOf(Get(data, "reply")) ELSE "understood"
    IN  Out(ts, ml, pf, add_to_history(h1, u.text, reply), TRUE, reply, 0)

\* process_user_input, action query_tasks: a read
DispatchQueryTasks(data, u, ts, ml, pf, h1) ==
    Out(ts, ml, pf, add_to_history(h1, u.text, "tasks listed"),
        TRUE, "tasks listed", 0)

\* process_user_input from add_to_history(user_text) on
Dispatch(action, data, u, ts, ml, pf, h, raw_record_id) ==
    LET h1 == add_to_history(h, u.text, NoReply)
    IN  CASE action = "add_task" -> DispatchAddTask(data, u, ts, ml, pf, h1)
          [] action = "add_preference" ->
                DispatchAddPreference(data, u, ts, ml, pf, h1)
          [] action = "record_memory" ->
                DispatchRecordMemory(data, u, ts, ml, pf, h1, raw_record_id)
          [] action = "update_task" ->
                DispatchUpdateTask(data, u, ts, ml, pf, h1)
          [] action = "cancel_task" ->
                DispatchCancelTask(data, u, ts, ml, pf, h1)
          [] action = "chat" -> DispatchChat(data, u, ts, ml, pf, h1)
          [] OTHER -> DispatchQueryTasks(data, u, ts, ml, pf, h1)

\* ---------------------------------------------- interpreter: the actions
\* utterances handled in one run of the model
MaxUtterances == 1

Utterances ==
    { Utter("remind me to call mom", FALSE, FALSE, FALSE, FALSE),
      Utter("done with it", TRUE, FALSE, FALSE, FALSE),
      Utter("cancel it, it is done", TRUE, TRUE, FALSE, FALSE),
      Utter("yesterday I ran", FALSE, FALSE, TRUE, FALSE),
      Utter("the time is wrong", FALSE, FALSE, FALSE, TRUE) }

\* data objects with one and two keys
Obj1(k1, v1) == [k \in {k1} |-> v1]

Obj2(k1, v1, k2, v2) == [k \in {k1, k2} |-> IF k = k1 THEN v1 ELSE v2]

\* the record of a finished run, from the record of its start
Finished(start, asked, shape, action, data, parsed, o, calls, rejections) ==
    [start EXCEPT !.asked = asked, !.shape = shape, !.action = action,
                  !.data = data, !.parsed = parsed,
                  !.outcome = IF o.outcome THEN "True" ELSE "False",
                  !.reply = o.reply, !.calls = calls, !.target = o.target,
                  !.rejections = rejections]

\* process_user_input up to the first LLM call: the utterance is recorded
\* (recorded = FALSE: record_interaction raised); a completion utterance
\* with a pending task marks the most recent one done and returns
Submit(u, recorded) ==
    LET ml1 == IF recorded
               THEN record_interaction(memory_logs, u.text, "neutral", NoTag)
               ELSE memory_logs
        rid == IF recorded THEN Len(ml1) ELSE 0
        candidates == _pick_recent_pending(tasks, 5)
        start == [NoLast EXCEPT !.utt = u, !.before = tasks,
                                !.logs = Len(memory_logs), !.prefs0 = prefs,
                                !.hlen = Len(history), !.recorded = recorded,
                                !.ml0 = memory_logs]
    IN  /\ interp.pc = "ready"
        /\ interp.done < MaxUtterances
        /\ memory_logs' = ml1
        /\ IF _is_completion_intent(u) /\ Len(candidates) > 0
           THEN /\ tasks' = update_task_status(tasks, candidates[1].id, "done")
                /\ history' = add_to_history(history, u.text, "task completed")
                /\ interp' = [interp EXCEPT !.utt = u, !.raw_record_id = rid,
                                            !.attempt = 0, !.calls = 0,
                                            !.rejections = 0, !.why = "none",
                                            !.t0 = now, !.done = @ + 1]
                /\ lastRun' = [start EXCEPT !.action = "completion",
                                            !.outcome = "True",
                                            !.reply = "task completed",
                                            !.target = candidates[1].id]
           ELSE /\ interp' = [interp EXCEPT !.pc = "llm", !.utt = u,
                                            !.raw_record_id = rid,
                                            !.attempt = 0, !.calls = 1,
                                            !.rejections = 0, !.why = "none",
                                            !.t0 = now]
                /\ lastRun' = start
                /\ UNCHANGED <<tasks, history>>
        /\ UNCHANGED <<now, daemonVars, probe, result, prefs>>

\* the LLM call of the current attempt comes back: the loop of
\* get_ai_interpretation goes on after a rejection while it has attempts
\* left, then process_user_input validates the shape and dispatches
LLMRespond(r) ==
    /\ interp.pc = "llm"
    /\ \E why \in {RejectReason(r, interp.utt, interp.t0)} :
         IF why # "none" /\ LoopContinues(interp.attempt)
         THEN /\ interp' = [interp EXCEPT !.attempt = @ + 1, !.calls = @ + 1,
                                          !.rejections = @ + 1, !.why = why]
              /\ UNCHANGED <<tasks, memory_logs, prefs, history, lastRun>>
         ELSE \E parsed \in {AttemptParsed(r, interp.t0)} :
              \E action \in {IF why = "none" /\ ShapeAccepted(parsed)
                             THEN parsed.action ELSE "none"} :
              \E o \in {IF why # "none"
                        THEN Out(tasks, memory_logs, prefs, history, FALSE,
                                 "not understood", 0)
                        ELSE IF action = "none"
                        THEN Out(tasks, memory_logs, prefs, history, FALSE,
                                 "parse error", 0)
                        ELSE Dispatch(action, parsed.data, interp.utt, tasks,
                                      memory_logs, prefs, history,
                                      interp.raw_record_id)} :
                /\ tasks' = o.tasks
                /\ memory_logs' = o.memory_logs
                /\ prefs' = o.prefs
                /\ history' = o.history
                /\ interp' = [interp EXCEPT !.pc = "ready", !.done = @ + 1,
                                            !.rejections = 0, !.why = "none"]
                /\ lastRun' = Finished(lastRun,
                                       IF r.kind = "json" /\ r.actionKind = "str"
                                       THEN r.action ELSE "none",
                                       IF r.kind = "json" THEN r.dataKind
                                       ELSE "none",
                                       action,
                                       IF r.dataKind = "dict" THEN r.data
                                       ELSE EmptyDict,
                                       IF why # "none" THEN EmptyDict
                                       ELSE parsed.data,
                                       o, interp.calls,
                                       interp.rejections
                                           + (IF why # "none" THEN 1 ELSE 0))
    /\ UNCHANGED <<now, daemonVars, probe, result>>

FutureDue == IsoAt(1800, LocalOffset)

PastDue == IsoAt(0 - 600, LocalOffset)

StoredDue == IsoAt(600, LocalOffset)

\* the earliest instant the past-deadline check lets through, and the
\* second before it
GraceDue == IsoAt(0 - PastGraceSeconds, LocalOffset)

LateDue == IsoAt(0 - PastGraceSeconds - 1, LocalOffset)

\* responses of the LLM the model tries
LLMResponses ==
    { LLM("raise", "missing", "", "missing", EmptyDict),
      LLM("empty", "missing", "", "missing", EmptyDict),
      LLM("nojson", "missing", "", "missing", EmptyDict),
      LLM("json", "missing", "", "dict", Obj1("reply", JStr("hi"))),
      LLM("json", "nonstr", "", "dict", Obj1("reply", JStr("hi"))),
      LLM("json", "str", "chat", "missing", EmptyDict),
      LLM("json", "str", "chat", "nondict", EmptyDict),
      LLM("json", "str", "update_task", "missing", EmptyDict),
      Json("dance", Obj1("reply", JStr("hi"))),
      Json("chat", Obj1("reply", JStr("hi"))),
      Json("chat", EmptyDict),
      Json("query_tasks", Obj1("time_range", JStr("today"))),
      Json("record_memory", Obj2("sentiment", JStr("positive"),
                                 "tag", JStr("mood"))),
      Json("add_preference", Obj2("key", JStr("coffee"),
                                  "value", JStr("black"))),
      Json("add_task", Obj2("content", JStr("buy oat milk"),
                            "time", JRelative(1800, 0 - 1))),
      Json("add_task", Obj2("content", JStr("buy oat milk"),
                            "due_time", JIso(PastDue))),
      Json("add_task", Obj2("content", JStr("buy oat milk"),
                            "priority", JInt(9))),
      Json("add_task", Obj2("content", JStr("buy oat milk"),
                            "due_time", JIso(GraceDue))),
      Json("add_task", Obj2("content", JStr("buy oat milk"),
                            "time", JAbsolute(LateDue))),
      Json("cancel_task", EmptyDict),
      Json("cancel_task", Obj1("task_id", JNull)),
      Json("cancel_task", Obj1("task_id", JInt(1))),
      Json("cancel_task", Obj1("task_id", JInt(9))),
      Json("update_task", Obj2("task_id", JInt(1), "priority", JInt(5))),
      Json("update_task", Obj2("task_id", JInt(1), "priority", JInt(4))),
      Json("update_task", Obj2("task_id", JInt(1),
                               "content", JStr(" buy oat milk "))),
      Json("update_task", Obj2("task_id", JInt(1), "content", JStr("   "))),
      Json("update_task", Obj2("task_id", JInt(1), "category", JStr("home"))),
      Json("update_task", Obj2("task_id", JInt(1), "due_time", JIso(FutureDue))),
      Json("update_task", Obj2("task_id", JInt(1), "due_time", JIso(StoredDue))),
      Json("update_task", Obj2("task_id", JInt(1), "due_time", JNull)),
      Json("update_task", Obj2("task_id", JInt(1),
                               "time", JRelative(1800, 0 - 1))),
      Json("update_task", Obj2("task_id", JInt(1), "time", JRelativeBad)),
      Json("update_task", Obj2("task_id", JInt(1), "time", JIso(PastDue))),
      Json("update_task", Obj1("content", JStr("call dad"))),
      Json("update_task", Obj1("task_id", JInt(9))) }

\* a stored row with the given status
Stored(id, content, due, priority, status) ==
    [Row(id, content, due, priority, NullTime, 0) EXCEPT !.status = status]

\* task stores the interpreter starts from
StoreSamples ==
    { <<>>,
      <<Stored(1, "call mom", StoredDue, 4, "pending")>>,
      <<Stored(1, "call mom", NullTime, 3, "pending")>>,
      <<Stored(1, "call mom", StoredDue, 4, "pending"),
        Stored(2, "buy oat milk", FutureDue, 3, "pending")>>,
      <<Stored(1, "call mom", StoredDue, 4, "done"),
        Stored(2, "buy oat milk", NullTime, 2, "pending")>>,
      <<Stored(1, "call mom", StoredDue, 5, "cancelled")>> }

InitInterp ==
    /\ tasks \in StoreSamples
    /\ now = 0
    /\ lock = "free"
    /\ pc = "idle"
    /\ fetched = <<>>
    /\ idx = 1
    /\ menu = MenuOf(tasks)
    /\ menuCall = MenuCallOf("startup", "free")
    /\ shown = [i \in DOMAIN tasks |-> 0]
    /\ handled = NoResponse
    /\ probe = InitProbe
    /\ result = "unset"
    /\ InterpQuiet

NextInterp ==
    \/ \E u \in Utterances, recorded \in BOOLEAN : Submit(u, recorded)
    \/ \E r \in LLMResponses : LLMRespond(r)

SpecInterp == InitInterp /\ [][NextInterp]_vars

\* ------------------------------- daemon and interpreter on the same store
\* The quick-input worker thread of the daemon and an interpreter process
\* started from the menu run process_user_input against the tasks table
\* while the daemon's timers fire: every daemon step and every interpreter
\* step is one store transaction and they interleave freely.
SharedSeeds ==
    { <<Row(1, "call mom", IsoAt(600, LocalOffset), 5, NullTime, 0)>>,
      <<Row(1, "see ~/notes", IsoAt(300, LocalOffset), 3, NullTime, 0)>> }

InitShared ==
    /\ tasks \in SharedSeeds
    /\ now = 0
    /\ lock = "free"
    /\ pc = "idle"
    /\ fetched = <<>>
    /\ idx = 1
    /\ menu = MenuOf(tasks)
    /\ menuCall = MenuCallOf("startup", "free")
    /\ shown = [i \in 1..(1 + MaxUtterances) |-> 0]
    /\ handled = NoResponse
    /\ probe = InitProbe
    /\ result = "unset"
    /\ InterpQuiet

\* what the interpreter is told and what the LLM answers in this setting
SharedUtterances ==
    { Utter("remind me to call mom", FALSE, FALSE, FALSE, FALSE),
      Utter("done with it", TRUE, FALSE, FALSE, FALSE) }

SharedResponses ==
    { Json("cancel_task", Obj1("task_id", JInt(1))),
      Json("update_task", Obj2("task_id", JInt(1), "due_time", JIso(StoredDue))),
      Json("update_task", Obj2("task_id", JInt(1), "priority", JInt(9))),
      Json("add_task", Obj2("content", JStr("buy oat milk"),
                            "priority", JInt(9))) }

NextShared ==
    \/ Tick
    \/ ScanStart
    \/ ScanSkip
    \/ ScanShowDialog
    \/ \E r \in DialogOutcomes : DialogRespond(r)
    \/ DialogPostpone
    \/ \E a \in PromptAnswers : PromptRespond(a)
    \/ ScanEnd
    \/ \E u \in SharedUtterances : Submit(u, TRUE)
    \/ \E r \in SharedResponses : LLMRespond(r)

SpecShared == InitShared /\ [][NextShared]_vars

\* ------------------------------------------ dialogs opened from the menu
\* a menu entry whose callback hands the chosen button to
\* handle_dialog_response
menu_click_applied(ts, id, r, t) ==
    CASE r = "Complete" -> update_task_status(ts, id, "done")
      [] r \in {"Dismiss", "ScriptError", "GoNow", "Postpone"} ->
            update_task_notification_time(ts, id, t)
      [] OTHER -> ts

\* the callback of a task entry, lambda _, tid: self.show_task_dialog(tid):
\* the dialog's return value r is dropped, the rows stay as they are
menu_click(ts, id, r, t) == ts

\* the user clicks entry i of the menu while the UI thread is idle and
\* answers the dialog with r (or the dialog times out or fails)
MenuClick(i, r) ==
    /\ pc = "idle"
    /\ i \in DOMAIN menu
    /\ menu[i] \in DOMAIN tasks
    /\ r \in {"GoNow", "GoNowFail"} => HasLink(tasks[menu[i]].content)
    /\ tasks' = menu_click(tasks, menu[i], r, now)
    /\ handled' = [id |-> menu[i], resp |-> "MenuClick", minutes |-> 0,
                   before |-> tasks[menu[i]], at |-> now,
                   answer |-> [kind |-> r, n |-> 0]]
    /\ UNCHANGED <<now, lock, pc, fetched, idx, menu, menuCall, shown, probe,
                   result, interpVars>>

MenuSeeds ==
    { <<Row(1, "call mom", IsoAt(600, LocalOffset), 5, NullTime, 0),
        Row(2, "open https://x", NaiveAt(1200), 4, NullTime, 0)>>,
      <<Row(1, "see ~/notes", IsoAt(300, LocalOffset), 3, NullTime, 0),
        Row(2, "someday", NullTime, 4, NullTime, 0)>> }

InitMenu ==
    /\ tasks \in MenuSeeds
    /\ now = 0
    /\ lock = "free"
    /\ pc = "idle"
    /\ fetched = <<>>
    /\ idx = 1
    /\ menu = MenuOf(tasks)
    /\ menuCall = MenuCallOf("startup", "free")
    /\ shown = [i \in DOMAIN tasks |-> 0]
    /\ handled = NoResponse
    /\ probe = InitProbe
    /\ result = "unset"
    /\ InterpQuiet

NextMenu ==
    \/ Next
    \/ \E i \in 1..MenuLimit, r \in DialogOutcomes : MenuClick(i, r)

SpecMenu == InitMenu /\ [][NextMenu]_vars

\* ------------------------- update_task_notification_time called concurrently
\* The daemon's UI thread, its quick-input worker and an interpreter process
\* each open their own connection (get_db_connection).  SQLite lets one
\* connection at a time hold the write lock of the database file; a second
\* writer waits in the busy handler.  The model assumes the wait stays below
\* the connection's timeout.
\* concurrent callers
MaxCallers == 3

Callers == 1..MaxCallers

\* a store whose UPDATE statements take no write lock (writer: the
\* connections inside an UPDATE)
write_lock_free_always(writer) == TRUE

\* the UPDATE statement may start: no other connection is writing
write_lock_free(writer) == writer = {}

InitCount ==
    /\ tasks \in {<<Row(1, "call mom", IsoAt(600, LocalOffset), 5, NullTime, c)>> :
                    c \in {0, 1, 2, 4}}
    /\ probe = [c \in Callers |-> [pc |-> "idle", seen |-> 0]]
    /\ result = [writer |-> {}, before |-> tasks[1].notification_count]
    /\ now = 0
    /\ lock = "free"
    /\ pc = "idle"
    /\ fetched = <<>>
    /\ idx = 1
    /\ menu = <<>>
    /\ menuCall = NoCall
    /\ shown = <<>>
    /\ handled = NoResponse
    /\ InterpQuiet

\* caller c enters update_task_notification_time and opens its connection
CountIssue(c) ==
    /\ probe[c].pc = "idle"
    /\ probe' = [probe EXCEPT ![c].pc = "issued"]
    /\ UNCHANGED <<tasks, now, daemonVars, result, interpVars>>

\* the UPDATE of caller c starts: it takes the write lock and reads the row
CountBegin(c) ==
    /\ probe[c].pc = "issued"
    /\ write_lock_free(result.writer)
    /\ probe' = [probe EXCEPT ![c].pc = "writing",
                              ![c].seen = tasks[1].notification_count]
    /\ result' = [result EXCEPT !.writer = @ \cup {c}]
    /\ UNCHANGED <<tasks, now, daemonVars, interpVars>>

\* the UPDATE of caller c writes notification_count + 1 of the row it read
\* and commits, which releases the write lock
CountCommit(c) ==
    /\ probe[c].pc = "writing"
    /\ tasks' = update_task_notification_time(
                    [tasks EXCEPT ![1].notification_count = probe[c].seen],
                    1, now)
    /\ probe' = [probe EXCEPT ![c].pc = "done"]
    /\ result' = [result EXCEPT !.writer = @ \ {c}]
    /\ UNCHANGED <<now, daemonVars, interpVars>>

NextCount ==
    \E c \in Callers :
        \/ CountIssue(c)
        \/ CountBegin(c)
        \/ CountCommit(c)

SpecCount == InitCount /\ [][NextCount]_vars

\* ------------------------------------- timer ticks while a prompt is open
\* The reminder dialog is a subprocess the UI thread waits for: nothing else
\* runs on that thread until it returns or times out.  The postpone prompt
\* (rumps.Window.run) is a modal window of the application itself: the UI
\* thread keeps serving its event loop inside the call, so a timer callback
\* can run on top of the scan that opened the prompt.
\* `with self.lock:` on a threading.Lock: the caller enters when the lock is
\* free and waits otherwise, also when the holder is further down its own
\* call stack
acquire_blocking(owner) == IF owner = "free" THEN "enters" ELSE "waits"

\* reminder dialog of the current task, without the dialog counter
GuardShowDialog ==
    /\ pc = "loop"
    /\ idx <= Len(fetched)
    /\ should_notify_task(fetched[idx], now)
    /\ fetched[idx].id \in DOMAIN tasks
    /\ pc' = "dialog"
    /\ handled' = NoResponse
    /\ UNCHANGED <<tasks, now, lock, fetched, idx, menu, menuCall, shown,
                   probe, result, interpVars>>

\* the check timer fires inside the prompt's event loop: check_and_notify
\* runs on the UI thread and waits for the lock its own thread holds
ScanTickNested ==
    /\ pc = "prompt"
    /\ acquire_blocking(lock) = "waits"
    /\ pc' = "blocked"
    /\ UNCHANGED <<tasks, now, lock, fetched, idx, menu, menuCall, shown,
                   handled, probe, result, interpVars>>

\* the menu timer fires inside the prompt's event loop: update_menu finds
\* the lock taken and returns
MenuTickNested ==
    /\ pc = "prompt"
    /\ menu' = update_menu(lock, tasks, menu)
    /\ menuCall' = MenuCallOf("nested tick", lock)
    /\ UNCHANGED <<tasks, now, lock, pc, fetched, idx, shown, handled, probe,
                   result, interpVars>>

\* what the UI thread does next inside a scan once it is free to run
ScanProgress ==
    \/ ScanSkip
    \/ GuardShowDialog
    \/ \E r \in DialogOutcomes : DialogRespond(r)
    \/ DialogPostpone
    \/ \E a \in PromptAnswers : PromptRespond(a)
    \/ ScanEnd

NextGuard ==
    \/ Tick
    \/ MenuTick
    \/ ScanStart
    \/ ScanProgress
    \/ ScanTickNested
    \/ MenuTickNested

\* the thread keeps running, every dialog returns or times out and every
\* prompt is answered
SpecGuard == InitMenu /\ [][NextGuard]_vars /\ WF_vars(ScanProgress)

\* --------------------------------------------------- update_habit on its own
\* calls of update_habit in one run
MaxHabitCalls == 2

\* boosts tried, in hundredths: inside [0, 1] and on both sides of it
BoostSamples == {0, 10, 60, 0 - 10, 110}

\* the preferences table at the start
PrefsSamples ==
    {{}} \cup {{[key |-> "coffee", value |-> "black", source |-> "ai_inferred",
                 confidence |-> c]} : c \in {0, 55, 95, 100}}

InitHabit ==
    /\ prefs \in PrefsSamples
    /\ probe = [calls |-> 0, log |-> <<>>]
    /\ result = "unset"
    /\ tasks = <<>>
    /\ memory_logs = <<>>
    /\ history = <<>>
    /\ interp = IdleInterp
    /\ lastRun = NoLast
    /\ now = 0
    /\ lock = "free"
    /\ pc = "idle"
    /\ fetched = <<>>
    /\ idx = 1
    /\ menu = <<>>
    /\ menuCall = NoCall
    /\ shown = <<>>
    /\ handled = NoResponse

\* update_habit(key, value, boost, source) is called
HabitCall(key, value, boost, source) ==
    /\ probe.calls < MaxHabitCalls
    /\ prefs' = update_habit(prefs, key, value, boost, source)
    /\ probe' = [calls |-> probe.calls + 1,
                 log |-> Append(probe.log,
                                [key |-> key, value |-> value, boost |-> boost,
                                 source |-> source, before |-> prefs])]
    /\ result' = IF update_habit_raises(boost, source) THEN "ValueError"
                 ELSE "None"
    /\ UNCHANGED <<tasks, now, daemonVars, memory_logs, history, interp,
                   lastRun>>

NextHabit ==
    \E key \in {"coffee", "wake up"}, value \in {"black", "with oat milk"},
       boost \in BoostSamples, source \in {"user_said", "guessed"} :
        HabitCall(key, value, boost, source)

SpecHabit == InitHabit /\ [][NextHabit]_vars

\* ------------------------------------ two update_habit calls interleaving
\* update_habit runs a SELECT and then, from what the SELECT returned, an
\* UPDATE or an INSERT.  The SELECT opens no write transaction, so another
\* connection can commit between the two statements.
HabitCallers == {1, 2}

HabitKey == "coffee"

HabitValueOf(c) == IF c = 1 THEN "black" ELSE "with oat milk"

RaceBoosts == {10, 20, 60}

\* SELECT confidence FROM preferences WHERE key = ?
habit_select(pf, key) ==
    IF \E r \in pf : r.key = key
    THEN [found |-> TRUE, confidence |-> (CHOOSE r \in pf : r.key = key).confidence]
    ELSE [found |-> FALSE, confidence |-> 0]

\* the INSERT of the else-branch violates UNIQUE(key)
habit_insert_fails(pf, key) == \E r \in pf : r.key = key

\* the statement update_habit runs after its SELECT returned sel: the UPDATE
\* with min(1.0, the confidence read + boost), or the INSERT with
\* min(1.0, initial + boost), which fails on a key that exists by now
habit_write(pf, sel, key, value, boost, source) ==
    IF sel.found
    THEN {IF r.key = key
          THEN [r EXCEPT !.value = value, !.source = source,
                         !.confidence = Min(FullConfidence,
                                            sel.confidence + boost)]
          ELSE r : r \in pf}
    ELSE IF habit_insert_fails(pf, key) THEN pf
    ELSE pf \cup {[key |-> key, value |-> value, source |-> source,
                   confidence |-> Min(FullConfidence,
                                      PL_HABIT_INITIAL_CONFIDENCE + boost)]}

InitRace ==
    /\ prefs \in PrefsSamples
    /\ probe = [c \in HabitCallers |->
                   [pc |-> "idle", boost |-> 0,
                    sel |-> [found |-> FALSE, confidence |-> 0]]]
    /\ result = [before |-> prefs, failed |-> {}]
    /\ tasks = <<>>
    /\ memory_logs = <<>>
    /\ history = <<>>
    /\ interp = IdleInterp
    /\ lastRun = NoLast
    /\ now = 0
    /\ lock = "free"
    /\ pc = "idle"
    /\ fetched = <<>>
    /\ idx = 1
    /\ menu = <<>>
    /\ menuCall = NoCall
    /\ shown = <<>>
    /\ handled = NoResponse

\* caller c enters update_habit with the given boost and runs the SELECT
HabitSelect(c, boost) ==
    /\ probe[c].pc = "idle"
    /\ probe' = [probe EXCEPT ![c] = [pc |-> "selected", boost |-> boost,
                                      sel |-> habit_select(prefs, HabitKey)]]
    /\ UNCHANGED <<tasks, now, daemonVars, result, memory_logs, prefs,
                   history, interp, lastRun>>

\* caller c runs its UPDATE or INSERT and commits, or the INSERT raises
\* IntegrityError and the connection rolls back
HabitWrite(c) ==
    /\ probe[c].pc = "selected"
    /\ prefs' = habit_write(prefs, probe[c].sel, HabitKey, HabitValueOf(c),
                            probe[c].boost, "ai_inferred")
    /\ probe' = [probe EXCEPT ![c].pc = "returned"]
    /\ result' = IF ~probe[c].sel.found /\ habit_insert_fails(prefs, HabitKey)
                 THEN [result EXCEPT !.failed = @ \cup {c}]
                 ELSE result
    /\ UNCHANGED <<tasks, now, daemonVars, memory_logs, history, interp,
                   lastRun>>

NextRace ==
    \E c \in HabitCallers :
        \/ \E boost \in RaceBoosts : HabitSelect(c, boost)
        \/ HabitWrite(c)

SpecRace == InitRace /\ [][NextRace]_vars

\* ------------------------------------------------ the due-time queries alone
\* no query has run
NoQuery == [fn |-> "none", hours |-> 0, status |-> "", at |-> 0, rows |-> <<>>]

\* rows of the store the queries run on: due around now = 0 and around the
\* ends of the 1 hour and 24 hour windows, in every layout of the text
QuerySeeds(id) ==
    {Row(id, "call mom", d, 3, NullTime, 0) :
        d \in {IsoAt(23 * 3600, LocalOffset), IsoAt(25 * 3600, LocalOffset),
               IsoAt(0 - 3600, LocalOffset), IsoAt(0 - 60, LocalOffset),
               IsoAt(1, LocalOffset), IsoAt(0 - 1, LocalOffset),
               IsoAt(0, LocalOffset), IsoAt(24 * 3600, 0), IsoAt(3600, 0),
               IsoAt(ClockStep, LocalOffset),
               NaiveAt(23 * 3600), ZuluAt(0 - 1), NullTime, EmptyTime,
               BadTime}}
    \cup {Stored(id, "water plants", d, 2, "done") :
            d \in {IsoAt(23 * 3600, LocalOffset), IsoAt(0 - 3600, LocalOffset)}}

InitQuery ==
    /\ tasks \in {<<a, b>> : a \in QuerySeeds(1), b \in QuerySeeds(2)}
    /\ probe = NoQuery
    /\ result = NoQuery
    /\ InterpQuiet
    /\ now = 0
    /\ lock = "free"
    /\ pc = "idle"
    /\ fetched = <<>>
    /\ idx = 1
    /\ menu = <<>>
    /\ menuCall = NoCall
    /\ shown = <<>>
    /\ handled = NoResponse

\* get_upcoming_tasks(hours, status) is called; probe keeps the call before
QueryUpcoming(hours, status) ==
    /\ result' = [fn |-> "upcoming", hours |-> hours, status |-> status,
                  at |-> now,
                  rows |-> get_upcoming_tasks(tasks, hours, status, now)]
    /\ probe' = result
    /\ UNCHANGED <<tasks, now, daemonVars, interpVars>>

\* get_overdue_tasks(status) is called; probe keeps the call before
QueryOverdue(status) ==
    /\ result' = [fn |-> "overdue", hours |-> 0, status |-> status,
                  at |-> now,
                  rows |-> get_overdue_tasks(tasks, status, now)]
    /\ probe' = result
    /\ UNCHANGED <<tasks, now, daemonVars, interpVars>>

NextQuery ==
    \/ \E hours \in {1, 24}, status \in {"pending", "done"} :
          QueryUpcoming(hours, status)
    \/ \E status \in {"pending", "done"} : QueryOverdue(status)
    \/ Tick

SpecQuery == InitQuery /\ [][NextQuery]_vars

\* ----------------------------------------------------------- shutting down
\* the daemon's own variables while another component is exercised
DaemonQuiet ==
    /\ lock = "free"
    /\ pc = "idle"
    /\ fetched = <<>>
    /\ idx = 1
    /\ menu = <<>>
    /\ menuCall = NoCall
    /\ shown = <<>>
    /\ handled = NoResponse

\* timer callbacks counted before the shutdown
MaxFires == 2

\* probe holds the two rumps.Timer objects and how often each fired; result
\* follows quit_application: "up", then "menu_timer", "check_timer",
\* "quitting" and "quit"
InitQuit ==
    /\ probe = [menu_timer |-> "running", check_timer |-> "running",
                menu_fires |-> 0, check_fires |-> 0]
    /\ result = [at |-> "up", path |-> "none", raised |-> "none",
                 menu_at_quit |-> "unset", check_at_quit |-> "unset"]
    /\ tasks = <<>>
    /\ now = 0
    /\ DaemonQuiet
    /\ InterpQuiet

\* a running timer calls its callback
TimerFire(timer, fires) ==
    /\ result.at = "up"
    /\ probe[timer] = "running"
    /\ probe[fires] < MaxFires
    /\ probe' = [probe EXCEPT ![fires] = @ + 1]
    /\ UNCHANGED <<tasks, now, daemonVars, result, interpVars>>

\* the quit menu entry is clicked ("menu"), or SIGTERM / SIGINT arrives and
\* _signal_handler calls quit_application
QuitRequested(path) ==
    /\ result.at = "up"
    /\ result' = [result EXCEPT !.at = "menu_timer", !.path = path]
    /\ UNCHANGED <<tasks, now, daemonVars, probe, interpVars>>

\* self.<timer>.stop() inside the one try block: when it raises, the except
\* branch logs and the rest of the block is skipped; the timer that raised
\* is left running or stopped
StopTimer(timer, raises) ==
    /\ result.at = timer
    /\ \E left \in {"running", "stopped"} :
          probe' = [probe EXCEPT ![timer] = IF raises THEN left ELSE "stopped"]
    /\ result' = [result EXCEPT
                     !.at = IF raises \/ timer = "check_timer" THEN "quitting"
                            ELSE "check_timer",
                     !.raised = IF raises THEN timer ELSE @]
    /\ UNCHANGED <<tasks, now, daemonVars, interpVars>>

\* rumps.quit_application(None)
PlatformQuit ==
    /\ result.at = "quitting"
    /\ result' = [result EXCEPT !.at = "quit",
                                !.menu_at_quit = probe.menu_timer,
                                !.check_at_quit = probe.check_timer]
    /\ UNCHANGED <<tasks, now, daemonVars, probe, interpVars>>

NextQuit ==
    \/ TimerFire("menu_timer", "menu_fires")
    \/ TimerFire("check_timer", "check_fires")
    \/ \E path \in {"menu", "signal"} : QuitRequested(path)
    \/ \E timer \in {"menu_timer", "check_timer"}, raises \in BOOLEAN :
          StopTimer(timer, raises)
    \/ PlatformQuit

SpecQuit == InitQuit /\ [][NextQuit]_vars

\* ------------------------------------------------ the tasks table directly
\* rows the table may hold
MaxRows == 2

\* result of the last call: its arguments, the table before it, whether it
\* raised, the id it returned and what get_task_by_id returns for that id
NoStoreCall ==
    [fn |-> "none", content |-> "", due_time |-> NullTime, priority |-> JNull,
     raised |-> FALSE, id |-> 0, row |-> NoRow, before |-> <<>>]

InitStore ==
    /\ tasks = <<>>
    /\ result = NoStoreCall
    /\ probe = InitProbe
    /\ now = 0
    /\ DaemonQuiet
    /\ InterpQuiet

\* database.add_task(content, due_time, priority=priority), then
\* database.get_task_by_id on the id returned
StoreAddTask(content, due, priority) ==
    /\ Len(tasks) < MaxRows
    /\ tasks' = add_task(tasks, content, due, NoCategory, priority)
    /\ result' = [fn |-> "add_task", content |-> content, due_time |-> due,
                  priority |-> JInt(priority),
                  raised |-> add_task_raises(priority),
                  id |-> IF add_task_raises(priority) THEN 0
                         ELSE Len(tasks) + 1,
                  row |-> IF add_task_raises(priority) THEN NoRow
                          ELSE get_task_by_id(tasks', Len(tasks) + 1),
                  before |-> tasks]
    /\ UNCHANGED <<now, daemonVars, probe, interpVars>>

\* the interpreter's add_task branch on an LLM data object with the content
\* and the priority value p
InterpreterAddTask(content, p) ==
    /\ Len(tasks) < MaxRows
    /\ \E o \in {DispatchAddTask(Obj2("content", JStr(content), "priority", p),
                                 Utter(content, FALSE, FALSE, FALSE, FALSE),
                                 tasks, memory_logs, prefs, history)} :
          /\ tasks' = o.tasks
          /\ history' = o.history
          /\ result' = [fn |-> "interpreter", content |-> content,
                        due_time |-> NullTime, priority |-> p,
                        raised |-> FALSE, id |-> o.target,
                        row |-> get_task_by_id(o.tasks, o.target),
                        before |-> tasks]
    /\ UNCHANGED <<now, daemonVars, probe, memory_logs, prefs, interp, lastRun>>

\* priorities handed to the storage layer
PrioritySamples == {0 - 1, 0, 1, 3, 5, 6, 7}

NextStore ==
    \/ \E content \in {"call mom", "buy oat milk"},
          due \in {NullTime, IsoAt(600, LocalOffset), NaiveAt(600), BadTime},
          priority \in PrioritySamples :
            StoreAddTask(content, due, priority)
    \/ \E content \in {"call mom", "buy oat milk"},
          p \in {JInt(n) : n \in PrioritySamples} \cup {JNull, JStr("high")} :
            InterpreterAddTask(content, p)

SpecStore == InitStore /\ [][NextStore]_vars

\* ------------------------------------------ the memory_logs table directly
\* rows the table may hold
MaxLogs == 2

\* times the clock is advanced
MaxLogSteps == 2

\* the clock moves by three and a half days
LogClockStep == 84 * 3600

\* get_unprocessed_memory_logs(days=7, limit=100)
DefaultLogDays == 7
DefaultLogLimit == 100

NoLogQuery == [fn |-> "none", days |-> 0, limit |-> 0, at |-> 0, rows |-> <<>>]

\* probe remembers which ids were marked processed and which reclassified
InitLogs ==
    /\ memory_logs = <<>>
    /\ probe = [marked |-> {}, reclassified |-> {}, steps |-> 0]
    /\ result = NoLogQuery
    /\ tasks = <<>>
    /\ now = 0
    /\ prefs = {}
    /\ history = <<>>
    /\ interp = IdleInterp
    /\ lastRun = NoLast
    /\ DaemonQuiet

LogClock ==
    /\ probe.steps < MaxLogSteps
    /\ now' = now + LogClockStep
    /\ probe' = [probe EXCEPT !.steps = @ + 1]
    /\ result' = NoLogQuery
    /\ UNCHANGED <<tasks, daemonVars, interpVars>>

\* record_interaction(content): sentiment 'neutral', tag None
LogRecord(content) ==
    /\ Len(memory_logs) < MaxLogs
    /\ memory_logs' = record_interaction(memory_logs, content, "neutral", NoTag)
    /\ result' = NoLogQuery
    /\ UNCHANGED <<tasks, now, daemonVars, probe, prefs, history, interp,
                   lastRun>>

\* update_interaction(id, sentiment, tag): the record_memory classification
LogReclassify(id, sentiment, tag) ==
    /\ id \in DOMAIN memory_logs
    /\ memory_logs' = update_interaction(memory_logs, id, sentiment, tag)
    /\ probe' = [probe EXCEPT !.reclassified = @ \cup {id}]
    /\ result' = NoLogQuery
    /\ UNCHANGED <<tasks, now, daemonVars, prefs, history, interp, lastRun>>

\* mark_memory_log_processed(id)
LogMarkProcessed(id) ==
    /\ memory_logs' = mark_memory_log_processed(memory_logs, id)
    /\ probe' = [probe EXCEPT !.marked = @ \cup (DOMAIN memory_logs \cap {id})]
    /\ result' = NoLogQuery
    /\ UNCHANGED <<tasks, now, daemonVars, prefs, history, interp, lastRun>>

\* get_unprocessed_memory_logs(days, limit)
LogQuery(days, limit) ==
    /\ result' = [fn |-> "unprocessed", days |-> days, limit |-> limit,
                  at |-> now,
                  rows |-> get_unprocessed_memory_logs(memory_logs, days,
                                                       limit, now)]
    /\ UNCHANGED <<tasks, now, daemonVars, probe, interpVars>>

NextLogs ==
    \/ LogClock
    \/ LogRecord("felt tired")
    \/ \E id \in 1..MaxLogs : LogReclassify(id, "negative", "health")
    \/ \E id \in 1..(MaxLogs + 1) : LogMarkProcessed(id)
    \/ \E days \in {1, DefaultLogDays}, limit \in {1, DefaultLogLimit} :
          LogQuery(days, limit)

SpecLogs == InitLogs /\ [][NextLogs]_vars

\* ------------------------------------------------------ schema migration
(***************************************************************************)
(* The schema of app.db as far as init_db and migrate_database read or     *)
(* write it: whether the tables exist, which status list the CHECK of      *)
(* tasks names ("three": pending, done, ignored; "four": with cancelled;   *)
(* "other": any other text), the migrated columns present, whether         *)
(* tasks_new exists, and the indexes.                                      *)
(***************************************************************************)
NotificationColumns == {"last_notified_at", "notification_count"}

\* an index is dropped with its table
TaskIndexes ==
    {"idx_tasks_status", "idx_tasks_due_time", "idx_tasks_category",
     "idx_tasks_last_notified_at", "idx_tasks_notification_count"}

\* the indexes init_db creates
BaseIndexes ==
    {"idx_tasks_status", "idx_tasks_due_time", "idx_tasks_category",
     "idx_preferences_key", "idx_preferences_confidence",
     "idx_memory_logs_timestamp", "idx_memory_logs_context_tag"}

\* the indexes migrate_database creates
MigratedIndexes ==
    {"idx_tasks_last_notified_at", "idx_tasks_notification_count",
     "idx_memory_logs_is_processed"}

NoSchema ==
    [tables |-> FALSE, check |-> "four", task_cols |-> {}, tasks_new |-> FALSE,
     created_at |-> FALSE, is_processed |-> FALSE, indexes |-> {}]

\* _migrate_tasks_status_check: nothing for the four-value CHECK or an
\* unknown one; for the three-value CHECK tasks_new is created (the DDL is
\* committed at once), the rows are copied with both notification columns
\* named in the SELECT, which raises when tasks lacks one of them, then
\* tasks is dropped with its indexes and tasks_new renamed
_migrate_tasks_status_check(s) ==
    IF s.check # "three" THEN [schema |-> s, raised |-> FALSE]
    ELSE IF ~(NotificationColumns \subseteq s.task_cols)
    THEN [schema |-> [s EXCEPT !.tasks_new = TRUE], raised |-> TRUE]
    ELSE [schema |-> [s EXCEPT !.check = "four", !.tasks_new = FALSE,
                               !.indexes = @ \ TaskIndexes],
          raised |-> FALSE]

\* migrate_database: the columns are read first, the CHECK is migrated,
\* each missing column is added, the new indexes are created
migrate_database(s) ==
    LET r == _migrate_tasks_status_check(s)
    IN  IF r.raised THEN r
        ELSE [schema |-> [r.schema EXCEPT
                             !.task_cols = @ \cup NotificationColumns,
                             !.created_at = TRUE,
                             !.is_processed = TRUE,
                             !.indexes = @ \cup MigratedIndexes],
              raised |-> FALSE]

\* init_db: CREATE TABLE / INDEX IF NOT EXISTS, commit, migrate_database
init_db(s) ==
    migrate_database(
        [(IF s.tables THEN s ELSE [NoSchema EXCEPT !.tables = TRUE])
            EXCEPT !.indexes = @ \cup BaseIndexes])

\* the CHECK of tasks.status lets 'cancelled' through
accepts_cancelled(s) == s.tables /\ s.check = "four"

\* init_db calls made on the one store
MaxRuns == 2

\* stores from before any migration, from between the two, and fresh
InitMigrate ==
    /\ probe \in {NoSchema} \cup
           {[tables |-> TRUE, check |-> c, task_cols |-> cols,
             tasks_new |-> FALSE, created_at |-> ca, is_processed |-> ip,
             indexes |-> ix] :
                c \in {"three", "four", "other"},
                cols \in SUBSET NotificationColumns,
                ca \in BOOLEAN, ip \in BOOLEAN,
                ix \in {{}, BaseIndexes}}
    /\ result = [runs |-> 0, raised |-> FALSE, schema0 |-> probe,
                 after1 |-> probe, cancelled |-> "untried"]
    /\ tasks = <<>>
    /\ now = 0
    /\ DaemonQuiet
    /\ InterpQuiet

\* init_db() is called
RunInitDb ==
    /\ result.runs < MaxRuns
    /\ \E r \in {init_db(probe)} :
          /\ probe' = r.schema
          /\ result' = [result EXCEPT
                           !.runs = @ + 1,
                           !.raised = @ \/ r.raised,
                           !.after1 = IF result.runs = 0 THEN r.schema ELSE @,
                           !.cancelled = "untried"]
    /\ UNCHANGED <<tasks, now, daemonVars, interpVars>>

\* update_task_status(id, 'cancelled') on the migrated store
TryCancelled ==
    /\ result.runs > 0
    /\ result.cancelled = "untried"
    /\ result' = [result EXCEPT
                     !.cancelled = IF accepts_cancelled(probe) THEN "accepted"
                                   ELSE "rejected"]
    /\ UNCHANGED <<tasks, now, daemonVars, probe, interpVars>>

NextMigrate ==
    \/ RunInitDb
    \/ TryCancelled

SpecMigrate == InitMigrate /\ [][NextMigrate]_vars

\* ------------------------------------------------------------------ claims
Range(f) == {f[i] : i \in DOMAIN f}

\* seconds between the probe's last notification and now
ProbeElapsed == now - Instant(parse_time(probe.last_notified_at))

ProbeLastParses ==
    /\ probe.last_notified_at.k \notin {"null", "empty"}
    /\ probe.last_notified_at.k # "bad"

\* C1: for priority >= 3, with (cap, cooldown) = (5, 15 min) for priority >= 4
\* and (3, 30 min) for priority 3, should_notify_task is false when
\* notification_count >= cap or when last_notified_at is present, parses and
\* lies less than cooldown back, and true otherwise; a priority-5 task with
\* count 2 is refused 10 minutes after its last notification and allowed 20
\* minutes after it, and refused at any elapsed time once count is 5.
C1_ShouldNotifyTiers ==
    (result # "unset" /\ probe.priority >= 3) =>
        LET cap == IF probe.priority >= 4 THEN 5 ELSE 3
            cooldown == IF probe.priority >= 4 THEN 15 * 60 ELSE 30 * 60
            refused == \/ probe.notification_count >= cap
                       \/ ProbeLastParses /\ ProbeElapsed < cooldown
        IN  /\ result = IF refused THEN "no" ELSE "yes"
            /\ (probe.priority = 5 /\ probe.notification_count = 2
                /\ ProbeLastParses /\ ProbeElapsed = 600) => result = "no"
            /\ (probe.priority = 5 /\ probe.notification_count = 2
                /\ ProbeLastParses /\ ProbeElapsed = 1200) => result = "yes"
            /\ (probe.priority = 5 /\ probe.notification_count = 5)
                   => result = "no"

C1_Witness ==
    /\ result = "yes"
    /\ probe.priority = 5
    /\ probe.notification_count = 2
    /\ ProbeLastParses
    /\ ProbeElapsed = 1200

TierMax(priority) == IF priority >= 4 THEN 5 ELSE IF priority = 3 THEN 3 ELSE 1

\* C2: the number of reminder dialogs the scan presents for one task never
\* exceeds its tier maximum (5 for priority >= 4, 3 for priority 3, 1 for
\* priority <= 2), whatever the responses.
C2_DialogsWithinTierMax ==
    \A id \in DOMAIN shown : shown[id] <= TierMax(tasks[id].priority)

\* C3: every reminder dialog the scan presents, whatever its outcome, raises
\* the task's notification_count by exactly 1.
C3_CountOncePerDialog ==
    handled.resp \notin {"none", "ScanFailed"} =>
        tasks[handled.id].notification_count
            = handled.before.notification_count + 1

\* C4: a dialog that errors or times out leaves the task as an explicit
\* Dismiss does: last_notified_at = now, notification_count + 1, due_time and
\* status unchanged.
C4_TimeoutIsDismiss ==
    handled.resp \in {"Timeout", "ScriptError", "ExecError"} =>
        /\ tasks[handled.id].last_notified_at = get_current_time(handled.at)
        /\ tasks[handled.id].notification_count
              = handled.before.notification_count + 1
        /\ tasks[handled.id].due_time = handled.before.due_time
        /\ tasks[handled.id].status = handled.before.status

\* C5: each postpone_task(id, m) on a row with a stored due_time T moves
\* due_time to exactly T + m minutes whatever the current time, so k calls
\* leave T + (m1 + ... + mk) minutes; status is left unchanged.
C5_PostponeFromDueTime ==
    (probe.calls > 0 /\ ParseOk(probe.row0.due_time)) =>
        /\ ParseOk(tasks[1].due_time)
        /\ Instant(parse_time(tasks[1].due_time)) = probe.due0 + 60 * probe.sum
        /\ tasks[1].status = probe.row0.status
        /\ result = "True"

C5_Witness ==
    /\ probe.calls = 2
    /\ probe.sum = 31
    /\ probe.due0 + 3600 < now
    /\ Instant(parse_time(tasks[1].due_time)) = probe.due0 + 60 * 31

\* C6: when Complete has been handled for a dialog of the scan, the task is
\* done and the menu, rebuilt while handling, no longer lists it.
C6_CompleteRefreshesMenu ==
    handled.resp = "Complete" =>
        /\ tasks[handled.id].status = "done"
        /\ handled.id \notin Range(menu)

\* C7: a menu refresh is skipped exactly when another menu refresh is in
\* flight; a notification scan in progress never makes one skip.
C7_SeparateGuards ==
    /\ menuCall.outcome = "skipped" => menuCall.owner = "menu"
    /\ menuCall.owner = "scan" => menuCall.outcome = "rebuilt"

\* C8 as stated: the scan considers overdue pending tasks too, so a pending
\* task whose due_time has passed is in the list the scan evaluates.
C8_OverdueScanned ==
    (pc = "loop" /\ idx = 1) =>
        \A r \in Rows(tasks) :
            (/\ r.status = "pending"
             /\ Truthy(r.due_time) /\ ParseOk(r.due_time)
             /\ Instant(parse_time(r.due_time)) <= now)
                => r \in Range(fetched)

\* C8 amended: the list a scan evaluates holds exactly the pending tasks whose
\* due_time parses into (now, now + 1 hour] at the fetch; a pending task whose
\* due_time has already passed is not in it, so that scan neither evaluates
\* nor presents it.
C8_OnlyUpcomingScanned ==
    (pc = "loop" /\ idx = 1) =>
        /\ \A r \in Rows(tasks) :
              r \in Range(fetched) <=>
                  /\ r.status = "pending"
                  /\ Truthy(r.due_time) /\ ParseOk(r.due_time)
                  /\ now < Instant(parse_time(r.due_time))
                  /\ Instant(parse_time(r.due_time)) <= now + 3600
        /\ Range(fetched) \subseteq Rows(tasks)

C8_Witness ==
    /\ pc = "loop"
    /\ idx = 1
    /\ Len(fetched) = 1
    /\ \E r \in Rows(tasks) :
          /\ r.status = "pending"
          /\ ParseOk(r.due_time)
          /\ Instant(parse_time(r.due_time)) < now
          /\ r \notin Range(fetched)

\* the fields of a task row an update_task can write
SuppliedDiffers(d, old) ==
    \/ /\ "content" \in DOMAIN d
       /\ d["content"].t = "str"
       /\ Strip(d["content"].s) # old.content
    \/ /\ "time" \in DOMAIN d
       /\ _resolve_time_to_due_time_iso(d["time"], now) # old.due_time
    \/ /\ "time" \notin DOMAIN d
       /\ "due_time" \in DOMAIN d
       /\ parse_due_time(d["due_time"]) # old.due_time
    \/ /\ "priority" \in DOMAIN d
       /\ validate_priority(d["priority"]) # old.priority
    \/ /\ "category" \in DOMAIN d
       /\ CategoryOf(d["category"]) # old.category

\* C9: after an update_task that found its task, every field the LLM's data
\* did not supply keeps its stored value (due_time when neither "time" nor
\* "due_time" was supplied), the other rows are untouched, and when no
\* supplied field differs the store is unchanged and the outcome is True
C9_UpdateOnlySupplied ==
    (lastRun.action = "update_task" /\ lastRun.target # 0) =>
        LET d == lastRun.data
            old == lastRun.before[lastRun.target]
            new == tasks[lastRun.target]
        IN  /\ Len(tasks) = Len(lastRun.before)
            /\ \A j \in DOMAIN tasks :
                   j # lastRun.target => tasks[j] = lastRun.before[j]
            /\ "content" \notin DOMAIN d => new.content = old.content
            /\ ("time" \notin DOMAIN d /\ "due_time" \notin DOMAIN d)
                   => new.due_time = old.due_time
            /\ "priority" \notin DOMAIN d => new.priority = old.priority
            /\ "category" \notin DOMAIN d => new.category = old.category
            /\ new.status = old.status
            /\ new.last_notified_at = old.last_notified_at
            /\ new.notification_count = old.notification_count
            /\ (~SuppliedDiffers(d, old) /\ ~UpdateContentBad(d))
                   => (tasks = lastRun.before /\ lastRun.outcome = "True")

\* C10: a cancel_task from the LLM with exactly one recent pending task and
\* no task_id (also with an empty data object) cancels that task and keeps
\* its row; a proposed id outside the recent pending candidates is replaced
\* by the most recently created pending candidate
C10_CancelSinglePending ==
    lastRun.asked = "cancel_task" =>
        LET d == lastRun.data
            cands == get_recent_tasks(lastRun.before, "pending", 5)
            ids == {cands[i].id : i \in DOMAIN cands}
        IN  /\ (Len(cands) = 1 /\ "task_id" \notin DOMAIN d) =>
                   /\ Len(tasks) = Len(lastRun.before)
                   /\ tasks[cands[1].id].status = "cancelled"
                   /\ lastRun.outcome = "True"
            /\ (/\ Len(cands) >= 1
                /\ "task_id" \in DOMAIN d
                /\ d["task_id"].t = "int"
                /\ d["task_id"].n \notin ids) =>
                   /\ lastRun.target = cands[1].id
                   /\ tasks[cands[1].id].status = "cancelled"
                   /\ \A j \in DOMAIN tasks :
                          j # cands[1].id => tasks[j] = lastRun.before[j]

\* C11: a chat action with a data object echoes the supplied reply, or gives
\* the neutral acknowledgement when none was supplied (also for an empty
\* data object), returns True and changes no task and no preference
C11_ChatNoMutation ==
    (lastRun.asked = "chat" /\ lastRun.shape = "dict") =>
        /\ lastRun.outcome = "True"
        /\ lastRun.reply = IF JTruthy(Get(lastRun.data, "reply"))
                           THEN TextOf(Get(lastRun.data, "reply"))
                           ELSE "understood"
        /\ tasks = lastRun.before
        /\ prefs = lastRun.prefs0

\* why an attempt may be retried
RetryReasons ==
    {"empty response", "unparsable", "call failure", "time resolution",
     "past deadline"}

\* C12: for one utterance the LLM is called at most twice; the second call
\* follows only a rejection for one of the listed reasons; the first accepted
\* response ends the loop; after two rejections the interpretation is None
\* and the utterance fails
C12_AtMostTwoCalls ==
    /\ interp.calls <= 2
    /\ lastRun.calls <= 2
    /\ interp.pc = "llm" =>
          /\ interp.calls = interp.rejections + 1
          /\ interp.rejections = 0 => interp.why = "none"
          /\ interp.rejections = 1 => interp.why \in RetryReasons
    /\ (lastRun.outcome # "none" /\ lastRun.action # "completion") =>
          /\ lastRun.calls \in 1..2
          /\ lastRun.rejections = 2 =>
                /\ lastRun.calls = 2
                /\ lastRun.action = "none"
                /\ lastRun.outcome = "False"
                /\ lastRun.reply = "not understood"
          /\ lastRun.rejections < 2 =>
                /\ lastRun.calls = lastRun.rejections + 1
                /\ lastRun.reply # "not understood"

C12_Witness ==
    /\ lastRun.rejections = 2
    /\ lastRun.calls = 2
    /\ lastRun.outcome = "False"

\* a due_time the interpreter may hand on for the utterance u at anchor t0
DueAllowed(due, u, t0) ==
    \/ due = NullTime
    \/ _is_backfill_past_intent(u)
    \/ /\ ParseOk(due)
       /\ Instant(parse_time(due)) >= t0 - 30

\* C13: an accepted add_task or update_task carries a due_time that is absent
\* or not earlier than the anchor time minus 30 seconds, unless the utterance
\* has a backfill keyword; no task gets an earlier due_time from the run
C13_NoPastDeadline ==
    lastRun.action \in {"add_task", "update_task"} =>
        /\ "due_time" \in DOMAIN lastRun.parsed
        /\ lastRun.parsed["due_time"].t \in {"null", "iso"}
        /\ DueAllowed(lastRun.parsed["due_time"].ts, lastRun.utt, interp.t0)
        /\ \A id \in DOMAIN tasks :
              (\/ id \notin DOMAIN lastRun.before
               \/ tasks[id].due_time # lastRun.before[id].due_time)
                  => DueAllowed(tasks[id].due_time, lastRun.utt, interp.t0)

C13_Witness ==
    /\ lastRun.action = "add_task"
    /\ lastRun.outcome = "True"
    /\ ~_is_backfill_past_intent(lastRun.utt)
    /\ tasks[Len(tasks)].due_time = GraceDue
    /\ Instant(parse_time(GraceDue)) < interp.t0

\* the memory log of an utterance as step 1 writes it
RawLog(u) ==
    [content |-> u.text, sentiment |-> "neutral", tag |-> NoTag,
     timestamp |-> IsoAt(now, LocalOffset), is_processed |-> 0]

ClassificationFailed ==
    /\ lastRun.outcome = "False"
    /\ lastRun.reply \in {"not understood", "parse error"}

ClassifiedLog ==
    [content |-> lastRun.utt.text,
     sentiment |-> validate_sentiment(Get(lastRun.parsed, "sentiment")),
     tag |-> TagOf(Get(lastRun.parsed, "tag")),
     timestamp |-> IsoAt(now, LocalOffset), is_processed |-> 0]

SaysCompletion == lastRun.utt.completion /\ ~lastRun.utt.cancel

PendingBefore == {r \in Rows(lastRun.before) : r.status = "pending"}

\* C16: an utterance that says completion and not cancellation, with a
\* pending task in the store, marks the most recently created pending task
\* done without any LLM call and changes no other task; without a pending
\* task, or without that intent, the utterance goes to the LLM
C16_CompletionShortcut ==
    lastRun.utt.text # "" =>
        /\ (SaysCompletion /\ PendingBefore # {}) =>
              /\ lastRun.action = "completion"
              /\ lastRun.calls = 0
              /\ interp.pc = "ready"
              /\ lastRun.before[lastRun.target] \in PendingBefore
              /\ \A r \in PendingBefore :
                    r.created_at <= lastRun.before[lastRun.target].created_at
              /\ tasks = [lastRun.before EXCEPT ![lastRun.target].status = "done"]
        /\ ~(SaysCompletion /\ PendingBefore # {}) =>
              /\ lastRun.action # "completion"
              /\ interp.pc = "llm" \/ lastRun.calls >= 1

C16_Witness ==
    /\ lastRun.action = "completion"
    /\ Cardinality(PendingBefore) = 2
    /\ lastRun.target = 2
    /\ tasks[2].status = "done"
    /\ tasks[1].status = "pending"

\* C17: the history holds at most 3 entries and every successfully processed
\* utterance adds exactly one entry to it, the utterance with its reply, so
\* that the buffer holds the last 3 utterances
C17_OneEntryPerUtterance ==
    /\ Len(history) <= 3
    /\ lastRun.outcome = "True" =>
          /\ Len(history) = Min(3, lastRun.hlen + 1)
          /\ history[Len(history)].user = lastRun.utt.text

\* the confidence of key in the table pf, or the initial confidence
BaseConfidence(pf, key) ==
    IF \E r \in pf : r.key = key
    THEN (CHOOSE r \in pf : r.key = key).confidence
    ELSE 50

\* a call of the log that did not raise
Applied(c) ==
    /\ c.boost >= 0
    /\ c.boost <= 100
    /\ c.source \in {"user_said", "ai_inferred"}

\* C18: update_habit sets the confidence of its key to min(1.0, old + boost),
\* or min(1.0, initial + boost) for a new key; two calls on one key give
\* min(1.0, min(1.0, base + b1) + b2); whatever the calls, confidence stays in
\* [0, 1], never decreases, and there is one row per key (hundredths)
C18_HabitConfidence ==
    /\ \A r \in prefs : 0 <= r.confidence /\ r.confidence <= 100
    /\ \A r1, r2 \in prefs : r1.key = r2.key => r1 = r2
    /\ Len(probe.log) >= 1 =>
          LET c == probe.log[Len(probe.log)]
          IN  /\ \A r \in c.before : \E r2 \in prefs :
                    r2.key = r.key /\ r2.confidence >= r.confidence
              /\ Applied(c) =>
                    /\ \E r \in prefs :
                          /\ r.key = c.key
                          /\ r.value = c.value
                          /\ r.confidence =
                                Min(100, BaseConfidence(c.before, c.key) + c.boost)
                    /\ {r \in prefs : r.key # c.key}
                          = {r \in c.before : r.key # c.key}
              /\ ~Applied(c) => prefs = c.before
    /\ Len(probe.log) >= 2 =>
          LET c1 == probe.log[Len(probe.log) - 1]
              c2 == probe.log[Len(probe.log)]
          IN  (Applied(c1) /\ Applied(c2) /\ c1.key = c2.key) =>
                  BaseConfidence(prefs, c2.key) =
                      Min(100, Min(100, BaseConfidence(c1.before, c1.key)
                                        + c1.boost) + c2.boost)

C18_Witness ==
    /\ Len(probe.log) = 2
    /\ Applied(probe.log[1])
    /\ Applied(probe.log[2])
    /\ probe.log[1].key = "coffee"
    /\ probe.log[2].key = "coffee"
    /\ BaseConfidence(probe.log[1].before, "coffee") = 55
    /\ probe.log[1].boost = 10
    /\ probe.log[2].boost = 60
    /\ BaseConfidence(prefs, "coffee") = 100

\* the instant a row is due, for a row whose due_time parses
DueInstant(r) == Instant(parse_time(r.due_time))

Parses(r) == r.due_time.k \in {"naive", "zulu", "offset"}

\* C19: get_upcoming_tasks(hours = h, status = s) returns exactly the rows
\* with status s and a parseable due_time d with now < d <= now + h hours;
\* for h = 24 a row due at now + 23h is returned and rows due at now + 25h,
\* now - 1h or now - 1m are not
C19_UpcomingWindow ==
    result.fn = "upcoming" =>
        /\ Range(result.rows) =
              {r \in Rows(tasks) :
                  /\ r.status = result.status
                  /\ Parses(r)
                  /\ result.at < DueInstant(r)
                  /\ DueInstant(r) <= result.at + result.hours * 3600}
        /\ Len(result.rows) = Cardinality(Range(result.rows))
        /\ result.hours = 24 =>
              \A r \in {x \in Rows(tasks) :
                            Parses(x) /\ x.status = result.status} :
                  /\ DueInstant(r) = result.at + 23 * 3600
                        => r \in Range(result.rows)
                  /\ DueInstant(r) \in {result.at + 25 * 3600,
                                        result.at - 3600, result.at - 60}
                        => r \notin Range(result.rows)

C19_Witness ==
    /\ result.fn = "upcoming"
    /\ result.hours = 24
    /\ result.status = "pending"
    /\ Len(result.rows) = 1
    /\ DueInstant(result.rows[1]) = result.at + 24 * 3600
    /\ \E r \in Rows(tasks) :
          /\ r.status = "pending"
          /\ Parses(r)
          /\ DueInstant(r) = result.at - 60

\* C20: get_overdue_tasks(status = s) returns exactly the rows with status s
\* whose parseable due_time is before now: a row due 1 second ago is
\* returned, one due in 1 second is not; no row is returned by both
\* get_overdue_tasks and get_upcoming_tasks called at the same instant
C20_OverdueStrict ==
    /\ result.fn = "overdue" =>
          /\ Range(result.rows) =
                {r \in Rows(tasks) :
                    /\ r.status = result.status
                    /\ Parses(r)
                    /\ DueInstant(r) < result.at}
          /\ Len(result.rows) = Cardinality(Range(result.rows))
          /\ \A r \in {x \in Rows(tasks) :
                          Parses(x) /\ x.status = result.status} :
                /\ DueInstant(r) = result.at - 1 => r \in Range(result.rows)
                /\ DueInstant(r) = result.at + 1 => r \notin Range(result.rows)
    /\ ({result.fn, probe.fn} = {"overdue", "upcoming"} /\ result.at = probe.at)
          => Range(result.rows) \cap Range(probe.rows) = {}

C20_Witness ==
    /\ result.fn = "overdue"
    /\ probe.fn = "upcoming"
    /\ result.at = probe.at
    /\ Len(result.rows) = 1
    /\ DueInstant(result.rows[1]) = result.at - 1
    /\ Len(probe.rows) = 1

\* C29: for a task with priority <= 2 should_notify_task is true exactly
\* when notification_count = 0, whatever last_notified_at holds and however
\* long ago it lies
C29_LowPriorityOnce ==
    (result # "unset" /\ probe.priority <= 2) =>
        (result = "yes" <=> probe.notification_count = 0)

\* a low-priority task notified once, long past any cooldown, is refused
C29_Witness ==
    /\ result = "no"
    /\ probe.priority = 2
    /\ probe.notification_count = 1
    /\ ProbeLastParses
    /\ ProbeElapsed = 1801

\* the row that update_task_notification_time leaves of the row before
Bookkept(before, at) ==
    [before EXCEPT !.last_notified_at = get_current_time(at),
                   !.notification_count = @ + 1]

\* C26: a Dismiss response sets last_notified_at to now and adds one to
\* notification_count; due_time, status, content, priority and category of
\* the task, and every other task, stay as they were
C26_DismissOnlyBookkeeping ==
    handled.resp = "Dismiss" =>
        /\ tasks[handled.id].last_notified_at.k = "offset"
        /\ Instant(parse_time(tasks[handled.id].last_notified_at)) = handled.at
        /\ tasks[handled.id].notification_count
              = handled.before.notification_count + 1
        /\ \A f \in {"due_time", "status", "content", "priority", "category",
                     "created_at", "id"} :
              tasks[handled.id][f] = handled.before[f]

C26_Witness ==
    /\ handled.resp = "Dismiss"
    /\ handled.at > 0
    /\ handled.before.notification_count = 0
    /\ tasks[handled.id].notification_count = 1
    /\ tasks[handled.id].status = "pending"

\* C27: a Postpone answered with a number <= 0 leaves the task exactly as
\* Dismiss would: last_notified_at = now, notification_count + 1, due_time
\* and status unchanged
C27_NonPositivePostponeIsDismiss ==
    (handled.answer.kind = "int" /\ handled.answer.n <= 0) =>
        tasks[handled.id] = Bookkept(handled.before, handled.at)

C27_Witness ==
    /\ handled.answer.kind = "int"
    /\ handled.answer.n < 0
    /\ tasks[handled.id].notification_count
          = handled.before.notification_count + 1
    /\ tasks[handled.id].due_time = handled.before.due_time

\* minutes between the due_time before the response and the one after it
DueShift ==
    (Instant(parse_time(tasks[handled.id].due_time))
        - Instant(parse_time(handled.before.due_time))) \div 60

\* C28: when a Postpone response changes due_time the shift is between 1 and
\* 4320 minutes: 30 minutes for a blank or non-numeric answer, 4320 minutes
\* for any number above 4320
C28_PostponeShiftBounded ==
    (handled.answer.kind # "none"
     /\ tasks[handled.id].due_time # handled.before.due_time) =>
        /\ ParseOk(tasks[handled.id].due_time)
        /\ Instant(parse_time(tasks[handled.id].due_time))
              = Instant(parse_time(handled.before.due_time)) + 60 * DueShift
        /\ DueShift >= 1
        /\ DueShift <= 4320
        /\ handled.answer.kind \in {"blank", "text"} => DueShift = 30
        /\ (handled.answer.kind = "int" /\ handled.answer.n > 4320)
              => DueShift = 4320

C28_Witness ==
    /\ handled.answer.kind = "int"
    /\ handled.answer.n = 5000
    /\ tasks[handled.id].due_time # handled.before.due_time
    /\ DueShift = 4320

\* C30: the scan's lock is free whenever no scan is running, after a cycle
\* that ran to its end and after one that a storage failure ended; after
\* the failure the daemon is idle again and the next cycle can start
C30_GuardReleased ==
    /\ pc = "idle" => lock = "free"
    /\ handled.resp = "ScanFailed" => (pc = "idle" /\ ENABLED ScanStart)

C30_Witness ==
    /\ handled.resp = "ScanFailed"
    /\ lock = "free"
    /\ now > 0
    /\ \E id \in DOMAIN tasks : tasks[id].notification_count > 0

\* C25: on the quit menu entry and on a signal alike, the menu timer and the
\* check timer are both stopped when the platform's quit routine is
\* invoked, also when stopping the first timer raised
C25_TimersStoppedBeforeQuit ==
    result.at = "quit" =>
        /\ result.menu_at_quit = "stopped"
        /\ result.check_at_quit = "stopped"

\* C21: add_task(content, due_time, priority) followed by get_task_by_id on
\* the id returned yields a row with status pending, notification_count 0,
\* no last_notified_at, and the content, due_time and priority given
C21_AddTaskRoundTrip ==
    (result.fn = "add_task" /\ ~result.raised) =>
        /\ result.id \in DOMAIN tasks
        /\ result.id \notin DOMAIN result.before
        /\ result.row.id = result.id
        /\ result.row.status = "pending"
        /\ result.row.notification_count = 0
        /\ result.row.last_notified_at = NullTime
        /\ result.row.content = result.content
        /\ result.row.due_time = result.due_time
        /\ JInt(result.row.priority) = result.priority

C21_Witness ==
    /\ result.fn = "add_task"
    /\ result.id = 2
    /\ result.row.content = "buy oat milk"
    /\ result.row.due_time = IsoAt(600, LocalOffset)
    /\ result.row.priority = 5
    /\ tasks[1].content = "call mom"
    /\ tasks[1].priority = 1

\* C22: add_task at the storage layer with a priority outside 1..5 raises
\* and leaves the table as it was; the interpreter's add_task branch given
\* the same value inserts a task with priority 3
C22_PriorityTwoPolicies ==
    /\ (result.fn = "add_task" /\ result.priority.n \notin 1..5) =>
          /\ result.raised
          /\ tasks = result.before
    /\ (result.fn = "add_task" /\ result.priority.n \in 1..5) =>
          ~result.raised
    /\ (result.fn = "interpreter" /\ result.priority.t = "int"
        /\ result.priority.n \notin 1..5) =>
          /\ Len(tasks) = Len(result.before) + 1
          /\ SubSeq(tasks, 1, Len(result.before)) = result.before
          /\ result.row = tasks[Len(tasks)]
          /\ result.row.priority = 3
          /\ result.row.content = result.content

\* priority 6 was refused by the storage layer on a table of one row
C22_Witness ==
    /\ result.fn = "add_task"
    /\ result.priority = JInt(6)
    /\ result.raised
    /\ Len(tasks) = 1

\* ids of the rows the last get_unprocessed_memory_logs call returned
Returned == {result.rows[i].id : i \in DOMAIN result.rows}

\* second the memory log was stamped
LogInstant(id) == memory_logs[id].timestamp.w - memory_logs[id].timestamp.o

\* unprocessed logs stamped inside the window of the last call
Eligible ==
    {id \in DOMAIN memory_logs :
        /\ memory_logs[id].is_processed = 0
        /\ LogInstant(id) >= result.at - result.days * 86400}

\* what holds of every call whatever its limit: returned rows are eligible
\* and carry the stored columns, a log never reclassified shows sentiment
\* neutral and no tag, a log marked processed is not returned, and a log
\* once marked stays marked
LogsCommon ==
    /\ result.fn = "unprocessed" =>
          /\ Returned \subseteq Eligible
          /\ \A i \in DOMAIN result.rows :
                /\ result.rows[i].content = memory_logs[result.rows[i].id].content
                /\ result.rows[i].id \notin probe.reclassified =>
                      /\ result.rows[i].sentiment = "neutral"
                      /\ result.rows[i].tag = NoTag
          /\ Returned \cap probe.marked = {}
    /\ \A id \in probe.marked : memory_logs[id].is_processed = 1

C23_MigrationIdempotent ==
    (result.runs > 0 /\ result.schema0.check \in {"three", "four"}) =>
        /\ ~result.raised
        /\ accepts_cancelled(probe)
        /\ result.cancelled # "rejected"
        /\ ~probe.tasks_new
        /\ probe.task_cols = NotificationColumns
        /\ result.runs = 2 =>
              /\ probe.task_cols = result.after1.task_cols
              /\ probe.check = result.after1.check
              /\ result.after1.indexes \subseteq probe.indexes

\* the last LLM result came back from get_ai_interpretation (it was not
\* given up as a failed attempt)
ResultReturned ==
    /\ lastRun.calls > 0
    /\ lastRun.outcome # "none"
    /\ lastRun.shape # "none"
    /\ lastRun.reply # "not understood"

\* the top-level shape of that result is invalid: action missing or not
\* text, data missing or not an object, or action outside the seven values
ShapeInvalid ==
    \/ lastRun.asked = "none"
    \/ lastRun.shape # "dict"
    \/ lastRun.asked \notin
          {"add_task", "add_preference", "record_memory", "query_tasks",
           "update_task", "cancel_task", "chat"}

\* C33: an LLM result of invalid top-level shape fails the utterance with
\* no further LLM call and no change to tasks or preferences; a result with
\* one of the seven actions and a data object is never turned down for its
\* shape
C33_ShapeGate ==
    /\ (ResultReturned /\ ShapeInvalid) =>
          /\ lastRun.outcome = "False"
          /\ lastRun.reply = "parse error"
          /\ lastRun.calls = lastRun.rejections + 1
          /\ tasks = lastRun.before
          /\ prefs = lastRun.prefs0
    /\ (ResultReturned /\ ~ShapeInvalid) => lastRun.reply # "parse error"

\* the pending rows the utterance just processed started from
PendingAtStart ==
    {i \in DOMAIN lastRun.before : lastRun.before[i].status = "pending"}

\* the update_task branch ran on data that names no task
UpdateWithoutId ==
    /\ lastRun.action = "update_task"
    /\ lastRun.outcome # "none"
    /\ Get(lastRun.data, "task_id").t = "null"

\* C32: an update_task without task_id works on a task only when exactly one
\* pending task exists, and then on that one; with none or several it fails
\* with the request to name the task and leaves every task as it was
C32_AutoSelectOnlySingle ==
    UpdateWithoutId =>
        /\ Cardinality(PendingAtStart) = 1 =>
              /\ lastRun.target \in PendingAtStart
              /\ lastRun.reply # "no task to update"
        /\ Cardinality(PendingAtStart) # 1 =>
              /\ lastRun.target = 0
              /\ lastRun.outcome = "False"
              /\ lastRun.reply = "no task to update"
              /\ tasks = lastRun.before

C32_Witness ==
    /\ UpdateWithoutId
    /\ Cardinality(PendingAtStart) = 2
    /\ lastRun.outcome = "False"

\* C31: inside one scan the fetched list is fixed and the loop moves forward
\* one task at a time whatever happens to a task, a raised exception
\* included; the scan ends only after the last fetched task was passed
C31_ExceptionDoesNotAbortScan ==
    [][/\ (pc # "idle" /\ pc' # "idle") =>
             /\ fetched' = fetched
             /\ idx' \in {idx, idx + 1}
             /\ lock' = "scan"
       /\ (pc # "idle" /\ pc' = "idle") => idx > Len(fetched)
       /\ (pc = "loop" /\ idx' = idx + 1) => idx <= Len(fetched)]_vars

\* the first of two fetched tasks raised and the second is up next
C31_Witness ==
    /\ handled.resp = "TaskFailed"
    /\ pc = "loop"
    /\ Len(fetched) = 2
    /\ handled.id = fetched[1].id
    /\ idx = 2
    /\ lock = "scan"

\* every stored row has one of the four statuses, a priority in 1..5 and a
\* notification_count that is not negative
RowsWellFormed ==
    \A i \in DOMAIN tasks :
        /\ tasks[i].status \in {"pending", "done", "ignored", "cancelled"}
        /\ tasks[i].priority \in 1..5
        /\ tasks[i].notification_count >= 0

\* no step removes a row or lowers a row's notification_count
CountsNeverDecrease ==
    \A i \in DOMAIN tasks :
        /\ i \in DOMAIN tasks'
        /\ tasks'[i].notification_count >= tasks[i].notification_count

\* C34: whatever the daemon and the interpreter do, in any order, every
\* task keeps a notification_count that is never negative and never goes
\* down, a status among pending, done, ignored, cancelled and a priority
\* in 1..5
C34_RowsStayWellFormed == []RowsWellFormed /\ [][CountsNeverDecrease]_vars

\* the interpreter stored a task asked for with priority 9 and the daemon
\* has counted a notification of another task
C34_Witness ==
    /\ Len(tasks) = 2
    /\ lastRun.action = "add_task"
    /\ lastRun.outcome = "True"
    /\ Get(lastRun.data, "priority").t = "int"
    /\ Get(lastRun.data, "priority").n = 9
    /\ tasks[1].notification_count > 0

\* a row that is done or cancelled keeps its status, due_time and
\* notification fields in this step
ClosedRowsUntouched ==
    \A i \in DOMAIN tasks :
        tasks[i].status \in {"done", "cancelled"} =>
            /\ tasks'[i].status = tasks[i].status
            /\ tasks'[i].due_time = tasks[i].due_time
            /\ tasks'[i].last_notified_at = tasks[i].last_notified_at
            /\ tasks'[i].notification_count = tasks[i].notification_count

\* C38: once a task is done or cancelled no step of the daemon or of the
\* interpreter changes its status, due_time, last_notified_at or
\* notification_count, a dialog response for a task closed while its dialog
\* was open included
C38_ClosedTasksFrozen == [][ClosedRowsUntouched]_vars

\* C39: after a dialog opened from a menu entry, whichever button was
\* chosen, the task's status, due_time, last_notified_at and
\* notification_count are what they were before the click
C39_MenuDialogChangesNothing ==
    handled.resp = "MenuClick" =>
        /\ tasks[handled.id].status = handled.before.status
        /\ tasks[handled.id].due_time = handled.before.due_time
        /\ tasks[handled.id].last_notified_at = handled.before.last_notified_at
        /\ tasks[handled.id].notification_count
              = handled.before.notification_count

\* Complete was pressed in a dialog opened from the menu and the task is
\* still pending
C39_Witness ==
    /\ handled.resp = "MenuClick"
    /\ handled.answer.kind = "Complete"
    /\ tasks[handled.id].status = "pending"
    /\ tasks[handled.id].notification_count = 0

\* calls of update_task_notification_time that have returned
CallsDone == {c \in Callers : probe[c].pc = "done"}

\* C35: with any number of calls in flight at once, the stored
\* notification_count is the count at the start plus the number of calls
\* that have returned; when all n have returned it is exactly n higher
C35_NoLostUpdate ==
    tasks[1].notification_count = result.before + Cardinality(CallsDone)

\* every call has returned, the count is n higher
C35_Witness ==
    /\ CallsDone = Callers
    /\ MaxCallers >= 2
    /\ tasks[1].notification_count = result.before + MaxCallers

\* the preferences after the two calls run one after the other
RaceSequential ==
    update_habit(update_habit(result.before, HabitKey, HabitValueOf(1),
                              probe[1].boost, "ai_inferred"),
                 HabitKey, HabitValueOf(2), probe[2].boost, "ai_inferred")

\* C36: when two update_habit calls on one key have both returned, however
\* their statements interleaved, neither has failed, the key has one row and
\* its confidence is the one the two calls give when run in sequence
C36_InterleavedLikeSequential ==
    (\A c \in HabitCallers : probe[c].pc = "returned") =>
        /\ result.failed = {}
        /\ Cardinality({r \in prefs : r.key = HabitKey}) = 1
        /\ \A r \in prefs : r.key = HabitKey =>
              \E q \in RaceSequential :
                  q.key = HabitKey /\ q.confidence = r.confidence

\* C37: every scan that took the guard releases it again, also when a scan
\* tick or a menu tick fires while the scan's dialog or prompt is open
C37_GuardAlwaysReleased == (lock = "scan") ~> (lock = "free")

\* task i is pending, was never notified, and its due_time, more than one
\* check interval after the daemon started, has passed
DueMissed(i) ==
    /\ tasks[i].status = "pending"
    /\ tasks[i].notification_count = 0
    /\ ~Truthy(tasks[i].last_notified_at)
    /\ Truthy(tasks[i].due_time)
    /\ ParseOk(tasks[i].due_time)
    /\ Instant(parse_time(tasks[i].due_time)) > PL_DAEMON_CHECK_INTERVAL
    /\ now > Instant(parse_time(tasks[i].due_time))

\* C40: with scans at every check interval and dialogs that are answered,
\* a pending, never-notified task due more than one interval ahead has had
\* its reminder dialog by the time its due_time has passed
C40_RemindedBeforeDue ==
    \A i \in DOMAIN tasks : DueMissed(i) => shown[i] > 0

====
